---- MODULE Spec2Model ----
(***************************************************************************)
(* Model of the LLM provider layer of Hindsight2:                          *)
(*   llm/base_provider.py   parse_structured_output                        *)
(*   llm/gemini_provider.py send_message, stream_response,                 *)
(*                          send_with_json_output                          *)
(*   llm/claude_provider.py the same three operations                      *)
(*   llm/smart_provider.py  the classify / generate / format pipeline      *)
(*                                                                         *)
(* A text (a Python str) is a sequence of symbols.  A symbol is a single   *)
(* character, or a word: a run of characters none of which is a backtick,  *)
(* whitespace, a quote or JSON punctuation, and which neither starts nor   *)
(* ends inside a "json" fence label.  A JSON value is a tagged record.     *)
(***************************************************************************)
EXTENDS Integers, Sequences, FiniteSets, TLC

VARIABLES
    \* SmartGeminiProvider.send_message, one invocation
    pc,             \* the pipeline's state
    req,            \* the caller's arguments
    calls,          \* the provider calls issued so far, each with its reply
    problem_info,   \* what Stage 1 returned
    solution_data,  \* what Stage 2 returned
    result,         \* what send_message returned or raised
    path,           \* the pipeline states entered so far
    \* parse_structured_output, one response
    response_text, parsed, pphase,
    \* one provider object and its caller
    provider,       \* "gemini" or "claude"
    op,             \* the operation the caller invoked
    call_args,      \* its arguments
    backend,        \* how the backend treats the request
    call_result,    \* what send_message returned or raised
    gen,            \* the generator of stream_response
    received,       \* chunks the backend has delivered to the generator
    yielded,        \* chunks the generator has yielded to its consumer
    raised,         \* the exception the generator raised to its consumer
    \* encode_toon and decode_toon, one value
    cdata,          \* the value to encode
    codec,          \* how the toon_format package behaves when encoding
    dcodec,         \* how it behaves when decoding
    encoded,        \* what encode_toon returned or raised
    decoded,        \* what decode_toon returned or raised
    cphase,
    \* _format_solution_markdown, one call
    r_solution,     \* the argument solution_data
    r_info,         \* the argument problem_info
    rendered,       \* what the call returned or raised
    r_other,        \* what a call on other arguments returned, in between
    r_again,        \* what a second call on the same arguments returned
    rphase,
    \* send_message called twice on one provider, the calls interleaved:
    \* each variable maps an invocation to what the single pipeline holds
    t_pc, t_req, t_calls, t_info, t_sol, t_result,
    \* MainWindow: the hotkeys, the screenshot and the privacy of the window
    current_image,          \* the attribute: absent, None or an image
    hotkey_ids,             \* the hotkey ids that have a callback
    registered_dynamic_ids, \* the dynamic hotkeys registered
    os_hotkeys,             \* the ids the system holds for the window
    msg_queue,              \* WM_HOTKEY messages of Ctrl+Enter not yet handled
    ui_thread,              \* in the event loop, or blocked in send_message
    frames,                 \* calls of _handle_screenshot in processEvents
    captured,               \* the number of images captured so far
    llm_sent,               \* the images passed to llm_provider.send_message
    llm_provider,           \* whether a provider is configured
    privacy_enabled,        \* the flag
    status_label,           \* the indicator
    affinity,               \* the display affinity of the window
    visible                 \* isVisible()

pipeVars == <<pc, req, calls, problem_info, solution_data, result, path>>
parseVars == <<response_text, parsed, pphase>>
provVars == <<provider, op, call_args, backend, call_result, gen, received,
              yielded, raised>>
codecVars == <<cdata, codec, dcodec, encoded, decoded, cphase>>
renderVars == <<r_solution, r_info, rendered, r_other, r_again, rphase>>
concVars == <<t_pc, t_req, t_calls, t_info, t_sol, t_result>>
windowVars == <<current_image, hotkey_ids, registered_dynamic_ids, os_hotkeys,
                msg_queue, ui_thread, frames, captured, llm_sent,
                llm_provider, privacy_enabled, status_label, affinity,
                visible>>
vars == <<pc, req, calls, problem_info, solution_data, result, path,
          response_text, parsed, pphase,
          provider, op, call_args, backend, call_result, gen, received,
          yielded, raised,
          cdata, codec, dcodec, encoded, decoded, cphase,
          r_solution, r_info, rendered, r_other, r_again, rphase,
          t_pc, t_req, t_calls, t_info, t_sol, t_result,
          current_image, hotkey_ids, registered_dynamic_ids, os_hotkeys,
          msg_queue, ui_thread, frames, captured, llm_sent, llm_provider,
          privacy_enabled, status_label, affinity, visible>>

-----------------------------------------------------------------------------
(* Bounds of the model. *)

\* most tokens in a response text drawn for the parser
MaxTokens == 4

\* most chunks the backend delivers to one stream
MaxChunks == 3

-----------------------------------------------------------------------------
(* JSON values as Python holds them after json.loads. *)

Null == [t |-> "null"]
Bool(b) == [t |-> "bool", b |-> b]
Num(n) == [t |-> "num", n |-> n]
Str(s) == [t |-> "str", s |-> s]
Arr(a) == [t |-> "arr", a |-> a]
\* a dict: its items in insertion order, each <<key text, value>>
Obj(m) == [t |-> "obj", o |-> m]

IsDict(v) == v.t = "obj"
IsStr(v) == v.t = "str"

\* a one-word text
W(word) == <<word>>

\* the outcome of a Python call: a returned value, or a raised exception
Ret(v) == [exc |-> "", v |-> v]
Raise(kind) == [exc |-> kind, v |-> Null]

RECURSIVE Concat(_)
\* "".join(parts)
Concat(parts) ==
    IF parts = <<>> THEN <<>> ELSE Head(parts) \o Concat(Tail(parts))

-----------------------------------------------------------------------------
(* str.find, slicing and str.strip, with Python's 0-based positions. *)

\* the backtick character
BT == "bt"

\* the newline character
NL == "\n"

Whitespace == {" ", "\n"}

\* s[i:i+len(pat)] == pat, for a 0-based i
MatchAt(s, pat, i) ==
    /\ i >= 0
    /\ i + Len(pat) <= Len(s)
    /\ \A k \in 1..Len(pat) : s[i + k] = pat[k]

\* s.find(pat, start): the lowest position >= start where pat occurs, else -1
PyFind(s, pat, start) ==
    LET hits == {i \in start..(Len(s) - Len(pat)) : MatchAt(s, pat, i)}
    IN  IF hits = {} THEN -1
        ELSE CHOOSE i \in hits : \A j \in hits : i <= j

\* pat in s
PyContains(s, pat) == PyFind(s, pat, 0) # -1

\* a slice bound as Python normalises it: negative counts from the end
SliceBound(s, i) ==
    LET j == IF i < 0 THEN i + Len(s) ELSE i
    IN  IF j < 0 THEN 0 ELSE IF j > Len(s) THEN Len(s) ELSE j

\* s[a:b]
PySlice(s, a, b) == SubSeq(s, SliceBound(s, a) + 1, SliceBound(s, b))

\* s.strip()
PyStrip(s) ==
    LET keep == {i \in 1..Len(s) : s[i] \notin Whitespace}
    IN  IF keep = {} THEN <<>>
        ELSE SubSeq(s, CHOOSE i \in keep : \A j \in keep : i <= j,
                       CHOOSE i \in keep : \A j \in keep : i >= j)

\* s.startswith(pat)
PyStartsWith(s, pat) == MatchAt(s, pat, 0)

-----------------------------------------------------------------------------
(* json.loads on the modelled subset of JSON: objects, arrays, strings     *)
(* without escapes, unsigned integers, null / true / false.                *)

Digits == {"0", "1", "2", "3", "4", "5", "6", "7", "8", "9"}

DigitVal(c) ==
    CASE c = "0" -> 0 [] c = "1" -> 1 [] c = "2" -> 2 [] c = "3" -> 3
      [] c = "4" -> 4 [] c = "5" -> 5 [] c = "6" -> 6 [] c = "7" -> 7
      [] c = "8" -> 8 [] c = "9" -> 9

NoParse == [ok |-> FALSE]
Parsed(v, next) == [ok |-> TRUE, v |-> v, i |-> next]

\* the first 1-based position >= i that holds no JSON whitespace
SkipWs(s, i) ==
    LET rest == {j \in i..Len(s) : s[j] \notin Whitespace}
    IN  IF rest = {} THEN Len(s) + 1
        ELSE CHOOSE j \in rest : \A k \in rest : j <= k

\* the position just after the run of digits that starts at i
DigitsEnd(s, i) ==
    LET stop == {j \in i..Len(s) : s[j] \notin Digits}
    IN  IF stop = {} THEN Len(s) + 1
        ELSE CHOOSE j \in stop : \A k \in stop : j <= k

RECURSIVE DigitsValue(_)
DigitsValue(ds) ==
    IF ds = <<>> THEN 0
    ELSE 10 * DigitsValue(SubSeq(ds, 1, Len(ds) - 1)) + DigitVal(ds[Len(ds)])

\* the number whose digits run from position i to just before position e
NumberUpTo(s, i, e) == Parsed(Num(DigitsValue(SubSeq(s, i, e - 1))), e)

\* a number: 0, or a run of digits with no leading zero
ScanNumber(s, i) ==
    IF s[i] = "0" THEN Parsed(Num(0), i + 1)
    ELSE NumberUpTo(s, i, DigitsEnd(s, i))

\* the position of the first quote after position i, or 0
ClosingQuote(s, i) ==
    IF \E j \in (i + 1)..Len(s) : s[j] = "\""
    THEN CHOOSE j \in (i + 1)..Len(s) :
            s[j] = "\"" /\ \A k \in (i + 1)..(j - 1) : s[k] # "\""
    ELSE 0

\* the string between the quotes at i and e; a raw newline is refused
StringUpTo(s, i, e) ==
    IF e = 0 \/ \E k \in (i + 1)..(e - 1) : s[k] = NL THEN NoParse
    ELSE Parsed(Str(SubSeq(s, i + 1, e - 1)), e + 1)

\* a string: from the quote at i to the next quote
ScanString(s, i) == StringUpTo(s, i, ClosingQuote(s, i))

\* dict[key] = value: a key already present keeps its place
DictSet(m, key, value) ==
    IF \E k \in 1..Len(m) : m[k][1] = key
    THEN [k \in 1..Len(m) |-> IF m[k][1] = key THEN <<key, value>> ELSE m[k]]
    ELSE Append(m, <<key, value>>)

RECURSIVE ScanValue(_, _), ScanElements(_, _, _), ScanMembers(_, _, _)

\* after an array's element: "]" ends the array acc, "," starts the next
AfterElement(s, j, acc) ==
    IF j > Len(s) THEN NoParse
    ELSE IF s[j] = "]" THEN Parsed(Arr(acc), j + 1)
    ELSE IF s[j] = "," THEN ScanElements(s, SkipWs(s, j + 1), acc)
    ELSE NoParse

\* the array's element e has been scanned, after those in acc
WithElement(s, e, acc) ==
    IF ~e.ok THEN NoParse
    ELSE AfterElement(s, SkipWs(s, e.i), Append(acc, e.v))

\* the elements of an array from position i, after those in acc
ScanElements(s, i, acc) == WithElement(s, ScanValue(s, i), acc)

\* after an object's member: "}" ends the object acc, "," starts the next
AfterMember(s, j, acc) ==
    IF j > Len(s) THEN NoParse
    ELSE IF s[j] = "}" THEN Parsed(Obj(acc), j + 1)
    ELSE IF s[j] = "," THEN ScanMembers(s, SkipWs(s, j + 1), acc)
    ELSE NoParse

\* the member's value e has been scanned, under the key
WithMemberValue(s, key, e, acc) ==
    IF ~e.ok THEN NoParse
    ELSE AfterMember(s, SkipWs(s, e.i), DictSet(acc, key, e.v))

\* after a member's key: ":" at position c, then the value
AfterKey(s, key, c, acc) ==
    IF c > Len(s) \/ s[c] # ":" THEN NoParse
    ELSE WithMemberValue(s, key, ScanValue(s, SkipWs(s, c + 1)), acc)

\* the member's key k has been scanned
WithKey(s, k, acc) ==
    IF ~k.ok THEN NoParse
    ELSE AfterKey(s, k.v.s, SkipWs(s, k.i), acc)

\* the members of an object from position i, after those in acc
ScanMembers(s, i, acc) ==
    IF i > Len(s) \/ s[i] # "\"" THEN NoParse
    ELSE WithKey(s, ScanString(s, i), acc)

\* after "{" or "[": position j holds the closing bracket or the first item
ScanObject(s, j) ==
    IF j <= Len(s) /\ s[j] = "}" THEN Parsed(Obj(<<>>), j + 1)
    ELSE ScanMembers(s, j, <<>>)

ScanArray(s, j) ==
    IF j <= Len(s) /\ s[j] = "]" THEN Parsed(Arr(<<>>), j + 1)
    ELSE ScanElements(s, j, <<>>)

\* the value that starts at position i (i holds no whitespace)
ScanValue(s, i) ==
    IF i > Len(s) THEN NoParse
    ELSE CASE s[i] = "{" -> ScanObject(s, SkipWs(s, i + 1))
           [] s[i] = "[" -> ScanArray(s, SkipWs(s, i + 1))
           [] s[i] = "\"" -> ScanString(s, i)
           [] s[i] \in Digits -> ScanNumber(s, i)
           [] s[i] = "null" -> Parsed(Null, i + 1)
           [] s[i] = "true" -> Parsed(Bool(TRUE), i + 1)
           [] s[i] = "false" -> Parsed(Bool(FALSE), i + 1)
           [] OTHER -> NoParse

\* the scan e must have reached the end of s, whitespace aside
WholeText(s, e) ==
    IF e.ok /\ SkipWs(s, e.i) > Len(s) THEN Ret(e.v)
    ELSE Raise("JSONDecodeError")

\* json.loads(s): the value, or JSONDecodeError (also on trailing data)
JsonLoads(s) == WholeText(s, ScanValue(s, SkipWs(s, 1)))

-----------------------------------------------------------------------------
(* BaseLLMProvider.parse_structured_output *)

JsonMarker == <<BT, BT, BT, "j", "s", "o", "n">>
FenceMarker == <<BT, BT, BT>>
MarkerLen == 7

\* {"raw": response_text}
RawSentinel(text) == Obj(<<<<W("raw"), Str(text)>>>>)

\* text[start:end], stripped, for the marker's end start
FencedSlice(text, start) ==
    PyStrip(PySlice(text, start, PyFind(text, FenceMarker, start)))

\* the slice runs to the end of the text instead of the closing fence
ParseAttemptToEnd(text) ==
    IF PyContains(text, JsonMarker)
    THEN JsonLoads(PyStrip(PySlice(text,
                                   PyFind(text, JsonMarker, 0) + MarkerLen,
                                   Len(text))))
    ELSE JsonLoads(text)

\* the body of the try block: the fenced slice if the marker occurs, else
\* the whole text
ParseAttempt(text) ==
    IF PyContains(text, JsonMarker)
    THEN JsonLoads(FencedSlice(text, PyFind(text, JsonMarker, 0) + MarkerLen))
    ELSE JsonLoads(text)

\* r as the except clause leaves it: JSONDecodeError becomes the sentinel
ExceptJsonDecodeError(text, r) ==
    IF r.exc = "JSONDecodeError" THEN Ret(RawSentinel(text)) ELSE r

\* no except clause
ParseWithoutExcept(text) == ParseAttempt(text)

\* parse_structured_output(response_text)
ParseStructuredOutput(text) == ExceptJsonDecodeError(text, ParseAttempt(text))

-----------------------------------------------------------------------------
(* Python operations on values that the pipeline and the renderer use. *)

\* d.get(key): None for an absent key, whatever the default
DictGetNoDefault(d, key, default) ==
    IF \E k \in 1..Len(d.o) : d.o[k][1] = key
    THEN d.o[CHOOSE k \in 1..Len(d.o) : d.o[k][1] = key][2]
    ELSE Null

\* d.get(key, default)
DictGet(d, key, default) ==
    IF \E k \in 1..Len(d.o) : d.o[k][1] = key
    THEN d.o[CHOOSE k \in 1..Len(d.o) : d.o[k][1] = key][2]
    ELSE default

\* bool(v)
Truthy(v) ==
    CASE v.t = "null" -> FALSE
      [] v.t = "bool" -> v.b
      [] v.t = "num" -> v.n # 0
      [] v.t = "str" -> v.s # <<>>
      [] v.t = "arr" -> v.a # <<>>
      [] v.t = "obj" -> v.o # <<>>

DigitChar(d) ==
    CASE d = 0 -> "0" [] d = 1 -> "1" [] d = 2 -> "2" [] d = 3 -> "3"
      [] d = 4 -> "4" [] d = 5 -> "5" [] d = 6 -> "6" [] d = 7 -> "7"
      [] d = 8 -> "8" [] d = 9 -> "9"

RECURSIVE NumText(_)
\* str(n) for n >= 0
NumText(n) ==
    IF n < 10 THEN <<DigitChar(n)>>
    ELSE Append(NumText(n \div 10), DigitChar(n % 10))

RECURSIVE JoinWith(_, _)
\* sep.join(parts)
JoinWith(sep, parts) ==
    IF parts = <<>> THEN <<>>
    ELSE IF Len(parts) = 1 THEN parts[1]
    ELSE parts[1] \o sep \o JoinWith(sep, Tail(parts))

RECURSIVE PyRepr(_)
\* repr(v)
PyRepr(v) ==
    CASE v.t = "null" -> W("None")
      [] v.t = "bool" -> IF v.b THEN W("True") ELSE W("False")
      [] v.t = "num" -> NumText(v.n)
      [] v.t = "str" -> <<"'">> \o v.s \o <<"'">>
      [] v.t = "arr" ->
            <<"[">> \o JoinWith(<<",", " ">>,
                                [k \in 1..Len(v.a) |-> PyRepr(v.a[k])])
                    \o <<"]">>
      [] v.t = "obj" ->
            <<"{">> \o JoinWith(<<",", " ">>,
                                [k \in 1..Len(v.o) |->
                                    <<"'">> \o v.o[k][1] \o <<"'", ":", " ">>
                                        \o PyRepr(v.o[k][2])])
                    \o <<"}">>

\* str(v), as an f-string formats v
PyStr(v) == IF v.t = "str" THEN v.s ELSE PyRepr(v)

UpperSym(c) ==
    CASE c = "coding" -> "CODING"
      [] c = "math" -> "MATH"
      [] c = "general" -> "GENERAL"
      [] c = "multiple_choice" -> "MULTIPLE_CHOICE"
      [] c = "essay" -> "ESSAY"
      [] c = "j" -> "J" [] c = "s" -> "S" [] c = "o" -> "O" [] c = "n" -> "N"
      [] c = "x" -> "X"
      [] OTHER -> c

\* s.upper()
PyUpper(s) == [k \in 1..Len(s) |-> UpperSym(s[k])]

\* the items a for loop draws from v, or TypeError
PyIter(v) ==
    CASE v.t = "arr" -> Ret(v.a)
      [] v.t = "str" -> Ret([k \in 1..Len(v.s) |-> Str(<<v.s[k]>>)])
      [] v.t = "obj" -> Ret([k \in 1..Len(v.o) |-> Str(v.o[k][1])])
      [] OTHER -> Raise("TypeError")

-----------------------------------------------------------------------------
(* SmartGeminiProvider._format_solution_markdown *)

\* the steps section without the fallback to reasoning
StepsNoFallback(sol) ==
    LET steps == DictGet(sol, W("algorithm_steps"), Str(<<>>))
    IN  IF Truthy(steps)
        THEN <<"###", " ", "Algorithm", " ", "Steps", NL>> \o PyStr(steps)
                 \o <<NL, NL>>
        ELSE <<>>

\* "### Algorithm Steps\n{...}\n\n", from algorithm_steps, else reasoning
StepsSection(sol) ==
    LET steps == DictGet(sol, W("algorithm_steps"), Str(<<>>))
        reasoning == DictGet(sol, W("reasoning"), Null)
    IN  IF Truthy(steps)
        THEN <<"###", " ", "Algorithm", " ", "Steps", NL>> \o PyStr(steps)
                 \o <<NL, NL>>
        ELSE IF Truthy(reasoning)
        THEN <<"###", " ", "Algorithm", " ", "Steps", NL>> \o PyStr(reasoning)
                 \o <<NL, NL>>
        ELSE <<>>

\* "### Edge Cases\n" and one "- {ec}\n" per item, then "\n"
EdgeCasesSection(sol) ==
    LET edge_cases == DictGet(sol, W("edge_cases"), Arr(<<>>))
    IN  IF ~Truthy(edge_cases) THEN Ret(<<>>)
        ELSE LET items == PyIter(edge_cases)
             IN  IF items.exc # "" THEN items
                 ELSE Ret(<<"###", " ", "Edge", " ", "Cases", NL>>
                          \o Concat([k \in 1..Len(items.v) |->
                                <<"-", " ">> \o PyStr(items.v[k]) \o <<NL>>])
                          \o <<NL>>)

\* the code section with a fence put around the code in every case
CodeSectionAlwaysWraps(sol, info) ==
    LET code0 == DictGet(sol, W("code"), Str(<<>>))
        code == IF ~Truthy(code0) THEN DictGet(sol, W("answer"), Str(<<>>))
                ELSE code0
        details == DictGet(info, W("details"), Obj(<<>>))
    IN  IF ~Truthy(code) THEN Ret(<<>>)
        ELSE IF ~IsDict(details) THEN Raise("AttributeError")
        ELSE IF ~IsStr(code) THEN Raise("AttributeError")
        ELSE LET lang == DictGet(details, W("language"), Str(W("python")))
             IN  Ret(<<"###", " ", "Code", " ", "Section", NL>>
                         \o <<BT, BT, BT, " ">> \o PyStr(lang) \o <<NL>>
                         \o code.s \o <<NL, BT, BT, BT>> \o <<NL, NL>>)

\* "### Code Section\n{code}\n\n", from code, else answer, fence-wrapped
\* with details.language unless it starts with a fence
CodeSection(sol, info) ==
    LET code0 == DictGet(sol, W("code"), Str(<<>>))
        code == IF ~Truthy(code0) THEN DictGet(sol, W("answer"), Str(<<>>))
                ELSE code0
        details == DictGet(info, W("details"), Obj(<<>>))
    IN  IF ~Truthy(code) THEN Ret(<<>>)
        ELSE IF ~IsDict(details) THEN Raise("AttributeError")
        ELSE IF ~IsStr(code) THEN Raise("AttributeError")
        ELSE LET lang == DictGet(details, W("language"), Str(W("python")))
                 wrapped ==
                    IF ~PyStartsWith(PyStrip(code.s), FenceMarker)
                    THEN <<BT, BT, BT, " ">> \o PyStr(lang) \o <<NL>>
                             \o code.s \o <<NL, BT, BT, BT>>
                    ELSE code.s
             IN  Ret(<<"###", " ", "Code", " ", "Section", NL>> \o wrapped
                         \o <<NL, NL>>)

\* "### Complexity\n", the Time line, the Space line, "\n"
ComplexitySection(sol) ==
    LET tc == DictGet(sol, W("time_complexity"), Null)
        sc == DictGet(sol, W("space_complexity"), Null)
    IN  IF Truthy(tc) \/ Truthy(sc)
        THEN <<"###", " ", "Complexity", NL>>
             \o (IF Truthy(tc)
                 THEN <<"-", " ", "**Time**:", " ">> \o PyStr(tc) \o <<NL>>
                 ELSE <<>>)
             \o (IF Truthy(sc)
                 THEN <<"-", " ", "**Space**:", " ">> \o PyStr(sc) \o <<NL>>
                 ELSE <<>>)
             \o <<NL>>
        ELSE <<>>

\* the sections with Complexity before Edge Cases
JoinSectionsSwapped(steps, edges, code, complexity) ==
    IF edges.exc # "" THEN edges
    ELSE IF code.exc # "" THEN code
    ELSE Ret(steps \o complexity \o code.v \o edges.v)

\* the four sections in order, or the first exception met
JoinSections(steps, edges, code, complexity) ==
    IF edges.exc # "" THEN edges
    ELSE IF code.exc # "" THEN code
    ELSE Ret(steps \o edges.v \o code.v \o complexity)

\* the branch for ptype == "coding"
CodingSections(sol, info) ==
    IF ~IsDict(sol) THEN Raise("AttributeError")
    ELSE JoinSections(StepsSection(sol), EdgeCasesSection(sol),
                      CodeSection(sol, info), ComplexitySection(sol))

\* the other branch with the answer first
OtherSectionsAnswerFirst(sol) ==
    IF ~IsDict(sol) THEN Raise("AttributeError")
    ELSE LET answer == DictGet(sol, W("answer"), Str(<<>>))
             reasoning == DictGet(sol, W("reasoning"), Str(<<>>))
         IN  Ret((IF Truthy(answer)
                  THEN <<"###", " ", "Solution", NL>> \o PyStr(answer)
                           \o <<NL, NL>>
                  ELSE <<>>)
                 \o (IF Truthy(reasoning)
                     THEN <<"###", " ", "Analysis", NL>> \o PyStr(reasoning)
                     ELSE <<>>))

\* the branch for every other ptype
OtherSections(sol) ==
    IF ~IsDict(sol) THEN Raise("AttributeError")
    ELSE LET answer == DictGet(sol, W("answer"), Str(<<>>))
             reasoning == DictGet(sol, W("reasoning"), Str(<<>>))
         IN  Ret((IF Truthy(reasoning)
                  THEN <<"###", " ", "Analysis", NL>> \o PyStr(reasoning)
                           \o <<NL, NL>>
                  ELSE <<>>)
                 \o (IF Truthy(answer)
                     THEN <<"###", " ", "Solution", NL>> \o PyStr(answer)
                     ELSE <<>>))

\* "**Type:** `{ptype.upper()}`\n\n"
TypeBadge(ptype) ==
    <<"**Type:**", " ", BT>> \o PyUpper(ptype.s) \o <<BT, NL, NL>>

\* markdown_out: the badge and the sections after it
WithBadge(ptype, body) ==
    IF body.exc # "" THEN body ELSE Ret(Str(TypeBadge(ptype) \o body.v))

\* a renderer that rejects a type that is none of the four
FormatForKnownOnly(ptype, sol, info) ==
    IF ~IsStr(ptype) THEN Raise("AttributeError")
    ELSE IF ptype.s \notin {W("coding"), W("multiple_choice"), W("math"),
                            W("general")}
    THEN Raise("ValueError")
    ELSE WithBadge(ptype, IF ptype.s = W("coding")
                          THEN CodingSections(sol, info)
                          ELSE OtherSections(sol))

\* the document for ptype, which must have upper()
FormatFor(ptype, sol, info) ==
    IF ~IsStr(ptype) THEN Raise("AttributeError")
    ELSE WithBadge(ptype, IF ptype.s = W("coding")
                          THEN CodingSections(sol, info)
                          ELSE OtherSections(sol))

\* a renderer that reads problem_type without a default
FormatTypeNoDefault(solution, info) ==
    IF ~IsDict(solution) \/ ~IsDict(info)
    THEN Raise("AttributeError")
    ELSE FormatFor(DictGetNoDefault(info, W("problem_type"), Null),
                   DictGet(solution, W("solution"), Obj(<<>>)),
                   info)

\* a renderer that reads the solution wrapper without a default
FormatWrapperNoDefault(solution, info) ==
    IF ~IsDict(solution) \/ ~IsDict(info)
    THEN Raise("AttributeError")
    ELSE FormatFor(DictGet(info, W("problem_type"), Str(W("general"))),
                   DictGetNoDefault(solution, W("solution"), Null),
                   info)

\* a renderer that keeps the text of the call before it
FormatAfterEarlier(solution, info) ==
    IF r_other # Ret([t |-> "unset"]) THEN r_other
    ELSE FormatFor(DictGet(info, W("problem_type"), Str(W("general"))),
                   DictGet(solution, W("solution"), Obj(<<>>)),
                   info)

\* the markdown text, or the exception a wrongly typed value raises
FormatSolutionMarkdown(solution, info) ==
    IF ~IsDict(solution) \/ ~IsDict(info)
    THEN Raise("AttributeError")
    ELSE FormatFor(DictGet(info, W("problem_type"), Str(W("general"))),
                   DictGet(solution, W("solution"), Obj(<<>>)),
                   info)

-----------------------------------------------------------------------------
(* encode_toon: the compact encoder of the toon_format package when it is  *)
(* importable and succeeds, else json.dumps(data, indent=2).               *)

\* n spaces
Spaces(n) == [k \in 1..n |-> " "]

\* the characters json.dumps puts between items: ",\n" and the indent
ItemBreak(lvl) == <<",", NL>> \o Spaces(2 * lvl)

RECURSIVE JsonDumps(_, _)
\* json.dumps(v, indent=2), v nested lvl levels deep
JsonDumps(v, lvl) ==
    CASE v.t = "null" -> W("null")
      [] v.t = "bool" -> IF v.b THEN W("true") ELSE W("false")
      [] v.t = "num" -> NumText(v.n)
      [] v.t = "str" -> <<"\"">> \o v.s \o <<"\"">>
      [] v.t = "arr" ->
            IF v.a = <<>> THEN <<"[", "]">>
            ELSE <<"[", NL>> \o Spaces(2 * (lvl + 1))
                 \o JoinWith(ItemBreak(lvl + 1),
                             [k \in 1..Len(v.a) |-> JsonDumps(v.a[k], lvl + 1)])
                 \o <<NL>> \o Spaces(2 * lvl) \o <<"]">>
      [] v.t = "obj" ->
            IF v.o = <<>> THEN <<"{", "}">>
            ELSE <<"{", NL>> \o Spaces(2 * (lvl + 1))
                 \o JoinWith(ItemBreak(lvl + 1),
                             [k \in 1..Len(v.o) |->
                                <<"\"">> \o v.o[k][1] \o <<"\"", ":", " ">>
                                    \o JsonDumps(v.o[k][2], lvl + 1)])
                 \o <<NL>> \o Spaces(2 * lvl) \o <<"}">>

IsPrimitive(v) == v.t \in {"null", "bool", "num", "str"}

\* a primitive as the compact format writes it: unquoted
ToonPrimitive(v) ==
    CASE v.t = "null" -> W("null")
      [] v.t = "bool" -> IF v.b THEN W("true") ELSE W("false")
      [] v.t = "num" -> NumText(v.n)
      [] v.t = "str" -> v.s

\* one element of an array in the compact format
ToonItem(v) == IF IsPrimitive(v) THEN ToonPrimitive(v) ELSE PyRepr(v)

RECURSIVE ToonLines(_, _)
\* the compact format's lines for the object v, indented lvl levels:
\* "key: value", "key:" over a nested object, "key[N]: a,b" for an array
ToonLines(v, lvl) ==
    [k \in 1..Len(v.o) |->
        LET key == v.o[k][1]
            val == v.o[k][2]
        IN  Spaces(2 * lvl) \o key \o
            (CASE IsPrimitive(val) -> <<":", " ">> \o ToonPrimitive(val)
               [] val.t = "obj" ->
                     IF val.o = <<>> THEN <<":">>
                     ELSE <<":", NL>> \o JoinWith(<<NL>>, ToonLines(val, lvl + 1))
               [] val.t = "arr" ->
                     <<"[">> \o NumText(Len(val.a)) \o <<"]", ":", " ">>
                     \o JoinWith(<<",">>,
                                 [i \in 1..Len(val.a) |-> ToonItem(val.a[i])]))]

\* toon_format.encode(data)
ToonEncode(data) ==
    CASE data.t = "obj" -> JoinWith(<<NL>>, ToonLines(data, 0))
      [] data.t = "arr" ->
            <<"[">> \o NumText(Len(data.a)) \o <<"]", ":", " ">>
            \o JoinWith(<<",">>, [i \in 1..Len(data.a) |-> ToonItem(data.a[i])])
      [] OTHER -> ToonPrimitive(data)

\* the exceptions that are subclasses of Exception
ExceptionKinds ==
    {"APIError", "ValueError", "OSError", "AttributeError", "TypeError",
     "JSONDecodeError", "IndexError", "ImportError"}

\* how the toon_format package behaves in one call: it cannot be imported,
\* its function raises, or it works; "no_formatter" is smart_provider
\* without the toon_formatter module, where encode_toon is json.dumps
ToonModes == {"no_formatter", "missing", "raises", "works"}

\* the try block of encode_toon: from toon_format import encode; encode(data)
EncodeAttempt(data, toon) ==
    CASE toon = "missing" -> Raise("ImportError")
      [] toon = "raises" -> Raise("ValueError")
      [] toon = "works" -> Ret(Str(ToonEncode(data)))
      [] toon = "no_formatter" -> Ret(Str(JsonDumps(data, 0)))

\* a handler for ImportError alone
CatchesImportErrorOnly(exc) == exc = "ImportError"

\* except ImportError and except Exception, in encode_toon
EncodeCatches(exc) == exc \in ExceptionKinds

\* r as the handlers of encode_toon leave it: both return
\* json.dumps(data, indent=2)
EncodeExcept(data, r) ==
    IF r.exc # "" /\ EncodeCatches(r.exc) THEN Ret(Str(JsonDumps(data, 0)))
    ELSE r

\* encode_toon(data), returned or raised
EncodeToonOutcome(data, toon) == EncodeExcept(data, EncodeAttempt(data, toon))

\* encode_toon(data): ImportError and every other exception fall back to
\* json.dumps(data, indent=2)
EncodeToon(data, toon) == EncodeToonOutcome(data, toon).v.s

-----------------------------------------------------------------------------
(* The backend behind a provider call.  One behaviour says what happens to *)
(* one request: pre is the exception raised while the request is built     *)
(* (the audio upload, the image encoding), send that of the network call,  *)
(* read the                                                                *)
(* exception of reading the reply's text; "" means none.  msg is str(e).   *)

Behaviour(pre, send, read, text) ==
    [pre |-> pre, send |-> send, read |-> read, text |-> text,
     msg |-> <<"backend", " ", "failed">>]

Replies(text) == Behaviour("", "", "", text)
SendFails == Behaviour("", "APIError", "", <<>>)
ReadFails == Behaviour("", "", "ValueError", <<>>)
BuildFails == Behaviour("OSError", "", "", <<>>)

ModelName == Str(W("gemini-2.5-flash-lite"))

\* {'response': response, 'metadata': metadata}
Result(response, metadata) ==
    Obj(<<<<W("response"), response>>, <<W("metadata"), metadata>>>>)

\* the failure result without the error marker in front of the message
ErrorResultBare(msg) ==
    Obj(<<<<W("response"), Str(msg)>>,
          <<W("metadata"), Obj(<<<<W("error"), Str(msg)>>>>)>>>>)

\* {'response': f"Error: {str(e)}", 'metadata': {'error': str(e)}}
ErrorResult(msg) ==
    Result(Str(<<"Error:", " ">> \o msg),
           Obj(<<<<W("error"), Str(msg)>>>>))

\* a caught exception is lost by a handler that names only ValueError
CatchesValueErrorOnly(exc) == exc = "ValueError"

\* except Exception, in GeminiProvider.send_message
GeminiSendCatches(exc) == exc \in ExceptionKinds

\* the first exception the try block of GeminiProvider.send_message meets
GeminiSendFault(args, b) ==
    IF Truthy(args.audio_file) /\ b.pre # "" THEN b.pre
    ELSE IF b.send # "" THEN b.send
    ELSE b.read

\* what send_message returns or raises when its try block met the fault
GeminiSendOutcome(fault, b) ==
    IF fault = ""
    THEN Ret(Result(Str(b.text),
                    Obj(<<<<W("model"), ModelName>>,
                          <<W("finish_reason"), Str(W("STOP"))>>>>)))
    ELSE IF GeminiSendCatches(fault) THEN Ret(ErrorResult(b.msg))
    ELSE Raise(fault)

\* GeminiProvider.send_message(text, images, audio_file, system_prompt)
GeminiSendMessage(args, b) == GeminiSendOutcome(GeminiSendFault(args, b), b)

\* except Exception, in GeminiProvider.send_with_json_output
GeminiJsonCatches(exc) == exc \in ExceptionKinds

\* the try block of send_with_json_output: generate_content, then
\* parse_structured_output(response.text)
JsonOutputAttempt(b) ==
    IF b.send # "" THEN Raise(b.send)
    ELSE IF b.read # "" THEN Raise(b.read)
    ELSE ParseStructuredOutput(b.text)

\* r as the except clause leaves it: {'error': str(e)} for any exception
ExceptJsonOutput(b, r) ==
    IF r.exc = "" THEN r
    ELSE IF GeminiJsonCatches(r.exc)
    THEN Ret(Obj(<<<<W("error"), Str(b.msg)>>>>))
    ELSE r

\* GeminiProvider.send_with_json_output(text, json_schema, images)
GeminiSendWithJsonOutput(b) == ExceptJsonOutput(b, JsonOutputAttempt(b))

-----------------------------------------------------------------------------
(* What the backend may answer to a call of the pipeline. *)

KV(key, value) == <<W(key), value>>
S(word) == Str(W(word))

RECURSIVE JsonText(_)
\* a JSON text for v as a model writes it: compact, no whitespace
JsonText(v) ==
    CASE v.t = "null" -> W("null")
      [] v.t = "bool" -> IF v.b THEN W("true") ELSE W("false")
      [] v.t = "num" -> NumText(v.n)
      [] v.t = "str" -> <<"\"">> \o v.s \o <<"\"">>
      [] v.t = "arr" ->
            <<"[">> \o JoinWith(<<",">>,
                                [k \in 1..Len(v.a) |-> JsonText(v.a[k])])
                    \o <<"]">>
      [] v.t = "obj" ->
            <<"{">> \o JoinWith(<<",">>,
                                [k \in 1..Len(v.o) |->
                                    <<"\"">> \o v.o[k][1] \o <<"\"", ":">>
                                        \o JsonText(v.o[k][2])])
                    \o <<"}">>

\* a JSON text inside a json fence
Fenced(t) == JsonMarker \o <<NL>> \o t \o <<NL>> \o FenceMarker

\* values a classification reply may hold
InfoValues ==
    {Obj(<<KV("problem_type", S("coding")),
           KV("problem_statement", Str(<<"two", " ", "sum">>)),
           KV("details", Obj(<<KV("language", S("js"))>>))>>),
     Obj(<<KV("problem_type", S("coding")), KV("details", Null)>>),
     Obj(<<KV("problem_type", S("math")),
           KV("problem_statement", S("integral")),
           KV("details", Obj(<<>>))>>),
     Obj(<<KV("problem_type", S("coding")),
           KV("problem_statement", S("sort"))>>),
     Obj(<<KV("problem_type", S("coding")), KV("details", Obj(<<>>))>>),
     Obj(<<KV("problem_type", S("general")),
           KV("problem_statement", S("coding"))>>),
     Obj(<<KV("problem_type", S("multiple_choice"))>>),
     Obj(<<KV("problem_type", S("essay"))>>),
     Obj(<<KV("problem_type", Num(7))>>),
     Obj(<<>>)}

\* values a solution reply may hold
SolutionValues ==
    {Obj(<<KV("solution",
              Obj(<<KV("algorithm_steps", S("scan")),
                    KV("code", S("pass")),
                    KV("time_complexity", S("linear")),
                    KV("space_complexity", S("constant")),
                    KV("edge_cases", Arr(<<S("empty"), S("one")>>))>>))>>),
     Obj(<<KV("solution",
              Obj(<<KV("answer", S("four")), KV("reasoning", S("sum"))>>))>>),
     Obj(<<KV("solution", Obj(<<>>))>>),
     Obj(<<KV("solution", Null)>>),
     Obj(<<KV("solution", Obj(<<KV("edge_cases", Num(5))>>))>>)}

\* the texts the backend may reply with: JSON bare, fenced, fenced with
\* text around the fence, in a fence never closed, JSON that is no object,
\* and text that is no JSON
ReplyTexts ==
    {JsonText(v) : v \in InfoValues \cup SolutionValues}
    \cup {Fenced(JsonText(v)) :
            v \in {w \in InfoValues \cup SolutionValues : Len(w.o) = 1}}
    \cup {<<"Here", ":", NL>> \o Fenced(JsonText(v)) \o <<NL, "Done", "]">> :
            v \in {w \in InfoValues \cup SolutionValues : Len(w.o) = 3}}
    \cup {JsonMarker \o <<NL>> \o JsonText(Obj(<<>>)),
          JsonText(Arr(<<Num(1)>>)),
          <<"not", " ", "json", " ", "at", " ", "all">>}

\* the backend's behaviours towards a schema call of the pipeline
PipelineBackends ==
    {Replies(t) : t \in ReplyTexts} \cup {SendFails, ReadFails}

\* the backend's behaviours towards a plain call of the pipeline
PlainBackends ==
    {Replies(<<"The", " ", "answer", " ", "is", " ", "4">>),
     Replies(JsonText(Obj(<<KV("problem_type", S("coding"))>>))),
     SendFails, ReadFails, BuildFails}

-----------------------------------------------------------------------------
(* ClaudeProvider.send_message *)

ClaudeModelName == Str(W("claude-3-5-sonnet-20241022"))

\* except Exception, in ClaudeProvider.send_message
ClaudeSendCatches(exc) == exc \in ExceptionKinds

\* the first exception the try block of ClaudeProvider.send_message meets:
\* encoding an image, messages.create, or reading response.content[0]
ClaudeSendFault(args, b) ==
    IF Truthy(args.images) /\ b.pre # "" THEN b.pre
    ELSE IF b.send # "" THEN b.send
    ELSE b.read

\* what send_message returns or raises when its try block met the fault
ClaudeSendOutcome(fault, b) ==
    IF fault = ""
    THEN Ret(Result(Str(b.text),
                    Obj(<<<<W("model"), ClaudeModelName>>,
                          <<W("stop_reason"), Str(W("end_turn"))>>,
                          <<W("usage"),
                            Obj(<<<<W("input_tokens"), Num(1)>>,
                                  <<W("output_tokens"), Num(1)>>>>)>>>>)))
    ELSE IF ClaudeSendCatches(fault) THEN Ret(ErrorResult(b.msg))
    ELSE Raise(fault)

\* ClaudeProvider.send_message(text, images, audio_file, system_prompt)
ClaudeSendMessage(args, b) == ClaudeSendOutcome(ClaudeSendFault(args, b), b)

\* except Exception, in ClaudeProvider.send_with_json_output
ClaudeJsonCatches(exc) == exc \in ExceptionKinds

\* send_with_json_output after self.send_message returned or raised r:
\* parse_structured_output(response['response']), or {'error': str(e)}
ClaudeJsonOutcome(b, r) ==
    IF r.exc = ""
    THEN ParseStructuredOutput(DictGet(r.v, W("response"), Null).s)
    ELSE IF ClaudeJsonCatches(r.exc)
    THEN Ret(Obj(<<<<W("error"), Str(b.msg)>>>>))
    ELSE r

\* the arguments of self.send_message(schema_prompt, images=images)
ClaudeJsonArgs(args) ==
    [text |-> [prompt |-> args.text, json_schema |-> "schema"],
     images |-> args.images, audio_file |-> Null, system_prompt |-> Null]

\* ClaudeProvider.send_with_json_output(text, json_schema, images)
ClaudeSendWithJsonOutput(args, b) ==
    ClaudeJsonOutcome(b, ClaudeSendMessage(ClaudeJsonArgs(args), b))

-----------------------------------------------------------------------------
(* stream_response of both providers: a generator.  Its body runs when the *)
(* consumer asks for the next chunk, up to the next yield or its end.      *)

\* f"\n\nError: {str(e)}"
ErrorChunk(msg) == <<NL, NL, "Error:", " ">> \o msg

\* except Exception, in GeminiProvider.stream_response
GeminiStreamCatches(exc) == exc \in ExceptionKinds

\* except Exception, in ClaudeProvider.stream_response
ClaudeStreamCatches(exc) == exc \in ExceptionKinds

StreamCatches(prov, exc) ==
    IF prov = "gemini" THEN GeminiStreamCatches(exc)
    ELSE ClaudeStreamCatches(exc)

\* the exception met before the stream opens: building the request (the
\* audio upload of Gemini, the image encoding of Claude) or opening it
StreamOpenFault(prov, args, b) ==
    IF prov = "gemini" /\ Truthy(args.audio_file) /\ b.pre # "" THEN b.pre
    ELSE IF prov = "claude" /\ Truthy(args.images) /\ b.pre # "" THEN b.pre
    ELSE b.send

\* Gemini yields a chunk only if chunk.text is not empty; Claude yields
\* every text chunk
YieldsChunk(prov, text) == prov = "claude" \/ text # <<>>

-----------------------------------------------------------------------------
(* SmartGeminiProvider.send_message *)

PyNone == Null
Unset == [t |-> "unset"]
\* the reply of a call still in flight
Pending ==
    [pre |-> "pending", send |-> "", read |-> "", text |-> <<>>, msg |-> <<>>]

Image(n) == [t |-> "image", id |-> n]

\* the caller's arguments
Requests ==
    [text : {Str(<<>>), S("solve")},
     images : {PyNone, Arr(<<>>), Arr(<<Image(1)>>)},
     audio_file : {PyNone, S("note.wav")},
     system_prompt : {PyNone, S("brief")}]

\* the provider and its caller before any call
ProviderOff ==
    /\ provider = "none"
    /\ op = "none"
    /\ call_args = Unset
    /\ backend = Pending
    /\ call_result = Ret(Unset)
    /\ gen = "none"
    /\ received = 0
    /\ yielded = <<>>
    /\ raised = ""

\* no encoding in progress
CodecOff ==
    /\ cdata = Unset
    /\ codec = "none"
    /\ dcodec = "none"
    /\ encoded = Ret(Unset)
    /\ decoded = Ret(Unset)
    /\ cphase = "off"

\* no rendering in progress
RenderOff ==
    /\ r_solution = Unset
    /\ r_info = Unset
    /\ rendered = Ret(Unset)
    /\ r_other = Ret(Unset)
    /\ r_again = Ret(Unset)
    /\ rphase = "off"

\* no invocation in progress
ConcOff ==
    /\ t_pc = <<>>
    /\ t_req = <<>>
    /\ t_calls = <<>>
    /\ t_info = <<>>
    /\ t_sol = <<>>
    /\ t_result = <<>>

\* no window
WindowOff ==
    /\ current_image = Unset
    /\ hotkey_ids = {}
    /\ registered_dynamic_ids = {}
    /\ os_hotkeys = {}
    /\ msg_queue = 0
    /\ ui_thread = "none"
    /\ frames = 0
    /\ captured = 0
    /\ llm_sent = <<>>
    /\ llm_provider = FALSE
    /\ privacy_enabled = FALSE
    /\ status_label = "none"
    /\ affinity = "none"
    /\ visible = FALSE

\* the test is on None only: an empty list counts as images
ImagesNotNone(images) == images = PyNone

\* not images
NoImages(images) == ~Truthy(images)

\* the system prompt is not passed on
PlainCallArgsNoPrompt(r) ==
    [text |-> r.text, images |-> r.images, audio_file |-> r.audio_file,
     system_prompt |-> PyNone]

\* super().send_message(text, images, audio_file, system_prompt)
PlainCallArgs(r) ==
    [text |-> r.text, images |-> r.images, audio_file |-> r.audio_file,
     system_prompt |-> r.system_prompt]

PlainCall(r) ==
    [fn |-> "send_message", args |-> PlainCallArgs(r), reply |-> Pending]

\* _step_classify_and_extract: send_with_json_output(instruction and user
\* note, extraction_schema, images)
ClassifyCall(r) ==
    [fn |-> "send_with_json_output",
     args |-> [text |-> [role_prompt |-> "expert analyst",
                         context_str |-> r.text.s],
               json_schema |-> <<"problem_type", "problem_statement",
                                 "details">>,
               images |-> r.images],
     reply |-> Pending]

\* the Step 2 call with a context that is not the problem_info's encoding
SolutionCallNoContext(coding, context_str) ==
    [fn |-> "send_with_json_output",
     args |-> [text |-> [role_prompt |->
                            IF coding THEN "senior software engineer"
                            ELSE "helpful expert assistant",
                         context_str |-> <<>>],
               json_schema |->
                    IF coding
                    THEN <<"algorithm_steps", "code", "time_complexity",
                           "space_complexity", "edge_cases">>
                    ELSE <<"answer", "reasoning">>,
               images |-> PyNone],
     reply |-> Pending]

\* the Step 2 call for ptype with encode_toon(problem_info) as context
SolutionCallFor(coding, context_str) ==
    [fn |-> "send_with_json_output",
     args |-> [text |-> [role_prompt |->
                            IF coding THEN "senior software engineer"
                            ELSE "helpful expert assistant",
                         context_str |-> context_str],
               json_schema |->
                    IF coding
                    THEN <<"algorithm_steps", "code", "time_complexity",
                           "space_complexity", "edge_cases">>
                    ELSE <<"answer", "reasoning">>,
               images |-> PyNone],
     reply |-> Pending]

\* Step 2 choosing the coding role for a statement that names coding too
SolutionCallByStatement(info, toon) ==
    IF ~IsDict(info) THEN Raise("AttributeError")
    ELSE Ret(SolutionCallFor(
                \/ DictGet(info, W("problem_type"), S("general")) = S("coding")
                \/ DictGet(info, W("problem_statement"), Null) = S("coding"),
                EncodeToon(info, toon)))

\* _step_generate_solution up to its backend call: the role and schema for
\* ptype and the prompt around encode_toon(problem_info); AttributeError
\* when problem_info has no get
SolutionCall(info, toon) ==
    IF ~IsDict(info) THEN Raise("AttributeError")
    ELSE Ret(SolutionCallFor(
                DictGet(info, W("problem_type"), S("general")) = S("coding"),
                EncodeToon(info, toon)))

\* the metadata names the solution as the problem_info
StructuredResultSwapped(final_markdown, info, solution) ==
    Result(final_markdown,
           Obj(<<KV("model", ModelName), KV("problem_info", solution),
                 KV("raw_solution", info)>>))

\* the dict returned after Step 3
StructuredResult(final_markdown, info, solution) ==
    Result(final_markdown,
           Obj(<<KV("model", ModelName), KV("problem_info", info),
                 KV("raw_solution", solution)>>))

\* except Exception, in SmartGeminiProvider.send_message
SmartCatches(exc) == exc \in ExceptionKinds

\* calls with the reply of the call in flight filled in
Answered(b) == [calls EXCEPT ![Len(calls)].reply = b]

Init ==
    /\ pc = "Idle"
    /\ req \in Requests
    /\ calls = <<>>
    /\ problem_info = Unset
    /\ solution_data = Unset
    /\ result = Ret(Unset)
    /\ path = <<"Idle">>
    /\ response_text = <<>>
    /\ parsed = Ret(Null)
    /\ pphase = "idle"
    /\ ProviderOff
    /\ CodecOff
    /\ RenderOff
    /\ ConcOff
    /\ WindowOff

\* send_message is called: without images the plain call is issued, with
\* images Step 1's call
SendMessage ==
    /\ pc = "Idle"
    /\ IF NoImages(req.images)
       THEN /\ calls' = <<PlainCall(req)>>
            /\ pc' = "Plain"
            /\ path' = path
       ELSE /\ calls' = <<ClassifyCall(req)>>
            /\ pc' = "Classifying"
            /\ path' = Append(path, "Classifying")
    /\ UNCHANGED <<req, problem_info, solution_data, result>>
    /\ UNCHANGED parseVars
    /\ UNCHANGED provVars
    /\ UNCHANGED codecVars
    /\ UNCHANGED renderVars
    /\ UNCHANGED concVars
    /\ UNCHANGED windowVars

\* an exception reaches the except clause after the states sofar: the
\* plain call is issued as the fallback, or the exception leaves
\* send_message
OnFaultFrom(exc, answered, sofar) ==
    IF SmartCatches(exc)
    THEN /\ calls' = Append(answered, PlainCall(req))
         /\ pc' = "Degraded"
         /\ path' = Append(sofar, "Degraded")
         /\ result' = result
    ELSE /\ calls' = answered
         /\ pc' = "Done"
         /\ path' = Append(sofar, "Done")
         /\ result' = Raise(exc)

\* an exception reaches the except clause from the current state
OnFault(exc, answered) == OnFaultFrom(exc, answered, path)

\* the call after Step 1 returned info: Step 2's, or the exception met
AfterClassify(info, toon) ==
    IF info.exc # "" THEN info ELSE SolutionCall(info.v, toon)

\* Step 1's call returns: problem_info is set and Step 2 runs up to its call
ClassifyReturns(b, toon) ==
    /\ pc = "Classifying"
    /\ \E info \in {GeminiSendWithJsonOutput(b)} :
       \E next \in {AfterClassify(info, toon)} :
           /\ problem_info' = IF info.exc = "" THEN info.v ELSE problem_info
           /\ IF next.exc = ""
              THEN /\ calls' = Append(Answered(b), next.v)
                   /\ pc' = "Generating"
                   /\ path' = Append(path, "Generating")
                   /\ result' = result
              ELSE OnFault(next.exc, Answered(b))
    /\ UNCHANGED <<req, solution_data>>
    /\ UNCHANGED parseVars
    /\ UNCHANGED provVars
    /\ UNCHANGED codecVars
    /\ UNCHANGED renderVars
    /\ UNCHANGED concVars
    /\ UNCHANGED windowVars

\* Step 3 on what Step 2 returned, or the exception met
AfterGenerate(solution, info) ==
    IF solution.exc # "" THEN solution
    ELSE FormatSolutionMarkdown(solution.v, info)

\* Step 2's call returns: solution_data is set, Step 3 formats it and the
\* structured result is returned
GenerateReturns(b) ==
    /\ pc = "Generating"
    /\ \E solution \in {GeminiSendWithJsonOutput(b)} :
       \E final_markdown \in {AfterGenerate(solution, problem_info)} :
           /\ solution_data' = IF solution.exc = "" THEN solution.v
                               ELSE solution_data
           /\ IF final_markdown.exc = ""
              THEN /\ calls' = Answered(b)
                   /\ pc' = "Done"
                   /\ path' = path \o <<"Formatting", "Done">>
                   /\ result' = Ret(StructuredResult(final_markdown.v,
                                                     problem_info,
                                                     solution.v))
              ELSE OnFaultFrom(final_markdown.exc, Answered(b),
                               IF solution.exc = ""
                               THEN Append(path, "Formatting") ELSE path)
    /\ UNCHANGED <<req, problem_info>>
    /\ UNCHANGED parseVars
    /\ UNCHANGED provVars
    /\ UNCHANGED codecVars
    /\ UNCHANGED renderVars
    /\ UNCHANGED concVars
    /\ UNCHANGED windowVars

\* a fallback that runs the structured pipeline again when the plain call
\* failed
PlainReturnsReenters(b) ==
    /\ pc \in {"Plain", "Degraded"}
    /\ IF pc = "Degraded" /\ GeminiSendFault(calls[Len(calls)].args, b) # ""
       THEN /\ calls' = <<ClassifyCall(req)>>
            /\ result' = result
            /\ pc' = "Classifying"
            /\ path' = <<"Idle", "Classifying">>
       ELSE /\ calls' = Answered(b)
            /\ result' = GeminiSendMessage(calls[Len(calls)].args, b)
            /\ pc' = "Done"
            /\ path' = Append(path, "Done")
    /\ UNCHANGED <<req, problem_info, solution_data>>
    /\ UNCHANGED parseVars
    /\ UNCHANGED provVars
    /\ UNCHANGED codecVars
    /\ UNCHANGED renderVars
    /\ UNCHANGED concVars
    /\ UNCHANGED windowVars

\* the plain call returns, and send_message returns what it returned
PlainReturns(b) ==
    /\ pc \in {"Plain", "Degraded"}
    /\ calls' = Answered(b)
    /\ result' = GeminiSendMessage(calls[Len(calls)].args, b)
    /\ pc' = "Done"
    /\ path' = Append(path, "Done")
    /\ UNCHANGED <<req, problem_info, solution_data>>
    /\ UNCHANGED parseVars
    /\ UNCHANGED provVars
    /\ UNCHANGED codecVars
    /\ UNCHANGED renderVars
    /\ UNCHANGED concVars
    /\ UNCHANGED windowVars

Next ==
    \/ SendMessage
    \/ \E b \in PipelineBackends, toon \in ToonModes : ClassifyReturns(b, toon)
    \/ \E b \in PipelineBackends : GenerateReturns(b)
    \/ \E b \in PlainBackends : PlainReturns(b)

Spec == Init /\ [][Next]_vars

\* send_message is synchronous code: once called it runs to its next
\* backend call, and every backend call in flight returns or fails
LiveSpec ==
    /\ Init
    /\ [][Next]_vars
    /\ WF_vars(SendMessage)
    /\ WF_vars(\E b \in PipelineBackends, toon \in ToonModes :
                    ClassifyReturns(b, toon))
    /\ WF_vars(\E b \in PipelineBackends : GenerateReturns(b))
    /\ WF_vars(\E b \in PlainBackends : PlainReturns(b))

-----------------------------------------------------------------------------
(* encode_toon and decode_toon on one value. *)

\* JSON-safe values: primitives, sequences and mappings, nested
CodecValues ==
    {Null, Bool(TRUE), Bool(FALSE), Num(0), Num(12), Str(<<>>), S("a"),
     Arr(<<>>), Arr(<<Num(1), S("b")>>), Arr(<<Arr(<<Null>>)>>),
     Obj(<<>>), Obj(<<KV("a", Num(1))>>),
     Obj(<<KV("a", Arr(<<Num(1), Num(2)>>)),
           KV("b", Obj(<<KV("c", Bool(TRUE))>>))>>)}
    \cup InfoValues

\* toon_format.decode(text): the value whose compact encoding the text is,
\* or an exception for a text that is no compact encoding
ToonDecode(text) ==
    IF \E v \in CodecValues : ToonEncode(v) = text
    THEN Ret(CHOOSE v \in CodecValues : ToonEncode(v) = text)
    ELSE Raise("ValueError")

\* the try block of decode_toon: from toon_format import decode; decode(s)
DecodeAttempt(text, toon) ==
    CASE toon = "missing" -> Raise("ImportError")
      [] toon = "raises" -> Raise("ValueError")
      [] toon = "works" -> ToonDecode(text)

\* the handlers of decode_toon: ImportError returns json.loads(toon_str),
\* whose own exception is not handled; any other exception returns None
DecodeExcept(text, r) ==
    CASE r.exc = "" -> r
      [] r.exc = "ImportError" -> JsonLoads(text)
      [] r.exc \in ExceptionKinds -> Ret(PyNone)
      [] OTHER -> r

\* decode_toon(toon_str), returned or raised
DecodeToon(text, toon) == DecodeExcept(text, DecodeAttempt(text, toon))

\* the package's behaviours when decoding, in the installation in which
\* encoding behaved as toon: a package that is missing stays missing
DecodeModes(toon) ==
    CASE toon = "missing" -> {"missing"}
      [] toon \in {"raises", "works"} -> {"raises", "works"}
      [] OTHER -> {}

CodecInit ==
    /\ cdata \in CodecValues
    /\ codec \in ToonModes
    /\ dcodec = "none"
    /\ encoded = Ret(Unset)
    /\ decoded = Ret(Unset)
    /\ cphase = "data"
    /\ pc = "Off"
    /\ req = Unset
    /\ calls = <<>>
    /\ problem_info = Unset
    /\ solution_data = Unset
    /\ result = Ret(Unset)
    /\ path = <<>>
    /\ response_text = <<>>
    /\ parsed = Ret(Null)
    /\ pphase = "idle"
    /\ ProviderOff
    /\ RenderOff
    /\ ConcOff
    /\ WindowOff

\* encode_toon(cdata)
Encode ==
    /\ cphase = "data"
    /\ encoded' = EncodeToonOutcome(cdata, codec)
    /\ cphase' = "encoded"
    /\ UNCHANGED <<cdata, codec, dcodec, decoded>>
    /\ UNCHANGED <<pipeVars, parseVars, provVars, renderVars, concVars,
                   windowVars>>

\* decode_toon(encoded), the package behaving as dtoon
Decode(dtoon) ==
    /\ cphase = "encoded"
    /\ encoded.exc = ""
    /\ dtoon \in DecodeModes(codec)
    /\ decoded' = DecodeToon(encoded.v.s, dtoon)
    /\ dcodec' = dtoon
    /\ cphase' = "decoded"
    /\ UNCHANGED <<cdata, codec, encoded>>
    /\ UNCHANGED <<pipeVars, parseVars, provVars, renderVars, concVars,
                   windowVars>>

CodecNext ==
    \/ Encode
    \/ \E dtoon \in ToonModes : Decode(dtoon)

CodecSpec == CodecInit /\ [][CodecNext]_vars

-----------------------------------------------------------------------------
(* _format_solution_markdown on one pair of arguments: a call, possibly a  *)
(* call on other arguments, and a second call on the same pair.            *)

\* the keys the renderer reads from the solution, with the value each has
\* when it is populated and when it is empty
RenderKeys ==
    <<"algorithm_steps", "edge_cases", "code", "time_complexity",
      "space_complexity", "answer", "reasoning">>

Populated(key) ==
    CASE key = "algorithm_steps" -> Str(<<"sort", " ", "then", " ", "scan">>)
      [] key = "edge_cases" -> Arr(<<S("empty"), S("one")>>)
      [] key = "code" -> S("pass")
      [] key = "time_complexity" -> S("linear")
      [] key = "space_complexity" -> S("constant")
      [] key = "answer" -> S("four")
      [] key = "reasoning" -> S("sum")

Empty(key) == IF key = "edge_cases" THEN Arr(<<>>) ELSE Str(<<>>)

\* code that already stands in a fence
FencedCode == Str(<<BT, BT, BT, "py", NL, "pass", NL, BT, BT, BT>>)

\* fenced code after leading whitespace
IndentedCode == Str(<<" ", NL>> \o FencedCode.s)

\* how a key stands in the solution
KeyLevels(key) ==
    IF key = "code" THEN {"absent", "empty", "full", "fenced", "indented"}
    ELSE {"absent", "empty", "full"}

RECURSIVE SolutionFrom(_, _)
\* the mapping with the first n keys as the levels lv say
SolutionFrom(lv, n) ==
    IF n = 0 THEN <<>>
    ELSE LET key == RenderKeys[n]
             head == SolutionFrom(lv, n - 1)
         IN  CASE lv[n] = "absent" -> head
               [] lv[n] = "empty" -> Append(head, KV(key, Empty(key)))
               [] lv[n] = "full" -> Append(head, KV(key, Populated(key)))
               [] lv[n] = "fenced" -> Append(head, KV(key, FencedCode))
               [] lv[n] = "indented" -> Append(head, KV(key, IndentedCode))

KeyChoices ==
    {lv \in [1..Len(RenderKeys) ->
                {"absent", "empty", "full", "fenced", "indented"}] :
        \A n \in 1..Len(RenderKeys) : lv[n] \in KeyLevels(RenderKeys[n])}

\* the SolutionData values: every subset of the keys absent or empty, and
\* the mapping without a solution
RenderSolutions ==
    {Obj(<<KV("solution", Obj(SolutionFrom(lv, Len(RenderKeys))))>>) :
        lv \in KeyChoices}
    \cup {Obj(<<>>)}

\* the ProblemInfo values: the types, with and without details
RenderInfos ==
    {Obj(<<KV("problem_type", S("coding")),
           KV("details", Obj(<<KV("language", S("js"))>>))>>),
     Obj(<<KV("problem_type", S("coding")), KV("details", Obj(<<>>))>>),
     Obj(<<KV("problem_type", S("coding"))>>),
     Obj(<<KV("problem_type", S("math"))>>),
     Obj(<<KV("problem_type", S("essay"))>>),
     Obj(<<KV("problem_type", Str(<<>>))>>),
     Obj(<<>>)}

\* an argument after the call: the renderer only calls get() on it
ArgAfterRender(v) == v

RenderInit ==
    /\ r_solution \in RenderSolutions
    /\ r_info \in RenderInfos
    /\ rendered = Ret(Unset)
    /\ r_other = Ret(Unset)
    /\ r_again = Ret(Unset)
    /\ rphase = "args"
    /\ pc = "Off"
    /\ req = Unset
    /\ calls = <<>>
    /\ problem_info = Unset
    /\ solution_data = Unset
    /\ result = Ret(Unset)
    /\ path = <<>>
    /\ response_text = <<>>
    /\ parsed = Ret(Null)
    /\ pphase = "idle"
    /\ ProviderOff
    /\ CodecOff
    /\ ConcOff
    /\ WindowOff

\* _format_solution_markdown(r_solution, r_info)
Render ==
    /\ rphase = "args"
    /\ rendered' = FormatSolutionMarkdown(r_solution, r_info)
    /\ r_solution' = ArgAfterRender(r_solution)
    /\ r_info' = ArgAfterRender(r_info)
    /\ rphase' = "rendered"
    /\ UNCHANGED <<r_other, r_again>>
    /\ UNCHANGED <<pipeVars, parseVars, provVars, codecVars, concVars,
                   windowVars>>

\* a call for another request, on the same provider
RenderOther(solution, info) ==
    /\ rphase = "rendered"
    /\ r_other' = FormatSolutionMarkdown(solution, info)
    /\ rphase' = "between"
    /\ UNCHANGED <<r_solution, r_info, rendered, r_again>>
    /\ UNCHANGED <<pipeVars, parseVars, provVars, codecVars, concVars,
                   windowVars>>

\* _format_solution_markdown(r_solution, r_info), once more
RenderAgain ==
    /\ rphase \in {"rendered", "between"}
    /\ r_again' = FormatSolutionMarkdown(r_solution, r_info)
    /\ r_solution' = ArgAfterRender(r_solution)
    /\ r_info' = ArgAfterRender(r_info)
    /\ rphase' = "again"
    /\ UNCHANGED <<rendered, r_other>>
    /\ UNCHANGED <<pipeVars, parseVars, provVars, codecVars, concVars,
                   windowVars>>

\* the arguments of the call for another request
OtherSolutions ==
    {Obj(<<KV("solution", Obj(<<KV("answer", S("other"))>>))>>), Obj(<<>>)}

RenderNext ==
    \/ Render
    \/ \E solution \in OtherSolutions, info \in {Obj(<<>>)} :
            RenderOther(solution, info)
    \/ RenderAgain

RenderSpec == RenderInit /\ [][RenderNext]_vars

-----------------------------------------------------------------------------
(* SmartGeminiProvider.send_message called by two threads on the same      *)
(* provider object.  A thread may be suspended at each backend call; what  *)
(* an invocation holds between its calls is in its local variables.        *)

Invocations == {1, 2}

\* attributes of the one provider object, the same for every invocation
SelfSlot(i) == 1

\* where invocation i keeps problem_info, solution_data and its result:
\* local variables of its own frame
LocalSlot(i) == i

ConcRequests ==
    {[text |-> S("solve"), images |-> Arr(<<Image(1)>>),
      audio_file |-> PyNone, system_prompt |-> PyNone],
     [text |-> S("explain"), images |-> Arr(<<Image(2)>>),
      audio_file |-> PyNone, system_prompt |-> S("brief")],
     [text |-> S("solve"), images |-> PyNone,
      audio_file |-> PyNone, system_prompt |-> PyNone]}

\* the backend's behaviours towards the schema calls of two invocations
ConcSchemaBackends ==
    {Replies(JsonText(Obj(<<KV("problem_type", S("coding"))>>))),
     Replies(JsonText(Obj(<<KV("problem_type", Num(7))>>))),
     Replies(JsonText(Obj(<<KV("solution",
                               Obj(<<KV("answer", S("four")),
                                     KV("reasoning", S("sum"))>>))>>))),
     SendFails}

\* the backend's behaviours towards their plain calls
ConcPlainBackends ==
    {Replies(<<"The", " ", "answer", " ", "is", " ", "4">>), SendFails}

ConcInit ==
    /\ t_pc = [i \in Invocations |-> "Idle"]
    /\ t_req \in [Invocations -> ConcRequests]
    /\ t_calls = [i \in Invocations |-> <<>>]
    /\ t_info = [i \in Invocations |-> Unset]
    /\ t_sol = [i \in Invocations |-> Unset]
    /\ t_result = [i \in Invocations |-> Ret(Unset)]
    /\ pc = "Off"
    /\ req = Unset
    /\ calls = <<>>
    /\ problem_info = Unset
    /\ solution_data = Unset
    /\ result = Ret(Unset)
    /\ path = <<>>
    /\ response_text = <<>>
    /\ parsed = Ret(Null)
    /\ pphase = "idle"
    /\ ProviderOff
    /\ CodecOff
    /\ RenderOff
    /\ WindowOff

\* the calls of invocation i with the reply of its call in flight filled in
AnsweredOf(i, b) == [t_calls[i] EXCEPT ![Len(t_calls[i])].reply = b]

\* invocation i enters send_message
T_SendMessage(i) ==
    /\ t_pc[i] = "Idle"
    /\ IF NoImages(t_req[i].images)
       THEN /\ t_calls' = [t_calls EXCEPT ![i] = <<PlainCall(t_req[i])>>]
            /\ t_pc' = [t_pc EXCEPT ![i] = "Plain"]
       ELSE /\ t_calls' = [t_calls EXCEPT ![i] = <<ClassifyCall(t_req[i])>>]
            /\ t_pc' = [t_pc EXCEPT ![i] = "Classifying"]
    /\ UNCHANGED <<t_req, t_info, t_sol, t_result>>
    /\ UNCHANGED <<pipeVars, parseVars, provVars, codecVars, renderVars,
                   windowVars>>

\* an exception reaches the except clause of invocation i
T_OnFault(i, exc, answered) ==
    IF SmartCatches(exc)
    THEN /\ t_calls' = [t_calls EXCEPT ![i] = Append(answered,
                                                     PlainCall(t_req[i]))]
         /\ t_pc' = [t_pc EXCEPT ![i] = "Degraded"]
         /\ t_result' = t_result
    ELSE /\ t_calls' = [t_calls EXCEPT ![i] = answered]
         /\ t_pc' = [t_pc EXCEPT ![i] = "Done"]
         /\ t_result' = [t_result EXCEPT ![LocalSlot(i)] = Raise(exc)]

\* Step 1's call of invocation i returns
T_ClassifyReturns(i, b, toon) ==
    /\ t_pc[i] = "Classifying"
    /\ \E info \in {GeminiSendWithJsonOutput(b)} :
       \E next \in {AfterClassify(info, toon)} :
           /\ t_info' = IF info.exc = ""
                        THEN [t_info EXCEPT ![LocalSlot(i)] = info.v]
                        ELSE t_info
           /\ IF next.exc = ""
              THEN /\ t_calls' = [t_calls EXCEPT
                                    ![i] = Append(AnsweredOf(i, b), next.v)]
                   /\ t_pc' = [t_pc EXCEPT ![i] = "Generating"]
                   /\ t_result' = t_result
              ELSE T_OnFault(i, next.exc, AnsweredOf(i, b))
    /\ UNCHANGED <<t_req, t_sol>>
    /\ UNCHANGED <<pipeVars, parseVars, provVars, codecVars, renderVars,
                   windowVars>>

\* Step 2's call of invocation i returns, Step 3 formats
T_GenerateReturns(i, b) ==
    /\ t_pc[i] = "Generating"
    /\ \E solution \in {GeminiSendWithJsonOutput(b)} :
       \E info \in {t_info[LocalSlot(i)]} :
       \E final_markdown \in {AfterGenerate(solution, info)} :
           /\ t_sol' = IF solution.exc = ""
                       THEN [t_sol EXCEPT ![LocalSlot(i)] = solution.v]
                       ELSE t_sol
           /\ IF final_markdown.exc = ""
              THEN /\ t_calls' = [t_calls EXCEPT ![i] = AnsweredOf(i, b)]
                   /\ t_pc' = [t_pc EXCEPT ![i] = "Done"]
                   /\ t_result' =
                        [t_result EXCEPT ![LocalSlot(i)] =
                            Ret(StructuredResult(final_markdown.v, info,
                                                 solution.v))]
              ELSE T_OnFault(i, final_markdown.exc, AnsweredOf(i, b))
    /\ UNCHANGED <<t_req, t_info>>
    /\ UNCHANGED <<pipeVars, parseVars, provVars, codecVars, renderVars,
                   windowVars>>

\* the plain call of invocation i returns
T_PlainReturns(i, b) ==
    /\ t_pc[i] \in {"Plain", "Degraded"}
    /\ t_calls' = [t_calls EXCEPT ![i] = AnsweredOf(i, b)]
    /\ t_result' = [t_result EXCEPT ![LocalSlot(i)] =
                        GeminiSendMessage(t_calls[i][Len(t_calls[i])].args, b)]
    /\ t_pc' = [t_pc EXCEPT ![i] = "Done"]
    /\ UNCHANGED <<t_req, t_info, t_sol>>
    /\ UNCHANGED <<pipeVars, parseVars, provVars, codecVars, renderVars,
                   windowVars>>

ConcNext ==
    \/ \E i \in Invocations : T_SendMessage(i)
    \/ \E i \in Invocations, b \in ConcSchemaBackends, toon \in ToonModes :
            T_ClassifyReturns(i, b, toon)
    \/ \E i \in Invocations, b \in ConcSchemaBackends :
            T_GenerateReturns(i, b)
    \/ \E i \in Invocations, b \in ConcPlainBackends : T_PlainReturns(i, b)

ConcSpec == ConcInit /\ [][ConcNext]_vars

-----------------------------------------------------------------------------
(* A caller of one provider: send_message, or stream_response and the      *)
(* consumption of its generator.                                           *)

\* the backend's behaviours towards a direct call
ProviderBackends ==
    {Replies(<<"The", " ", "answer", " ", "is", " ", "4">>),
     SendFails, ReadFails, BuildFails}

\* the backend's behaviours towards a schema call made directly
JsonBackends ==
    ProviderBackends
    \cup {Replies(JsonText(Obj(<<KV("answer", Num(4))>>))),
          Replies(<<"Here", ":", NL>>
                  \o Fenced(JsonText(Obj(<<KV("answer", Num(4))>>)))),
          Replies(Fenced(<<"oops">>))}

\* the texts of the chunks a backend streams
ChunkTexts == {<<>>, W("a"), W("b")}

ProviderInit ==
    /\ provider \in {"gemini", "claude"}
    /\ op = "none"
    /\ call_args = Unset
    /\ backend = Pending
    /\ call_result = Ret(Unset)
    /\ gen = "none"
    /\ received = 0
    /\ yielded = <<>>
    /\ raised = ""
    /\ pc = "Off"
    /\ req = Unset
    /\ calls = <<>>
    /\ problem_info = Unset
    /\ solution_data = Unset
    /\ result = Ret(Unset)
    /\ path = <<>>
    /\ response_text = <<>>
    /\ parsed = Ret(Null)
    /\ pphase = "idle"
    /\ CodecOff
    /\ RenderOff
    /\ ConcOff
    /\ WindowOff

\* provider.send_message(text, images, audio_file, system_prompt)
CallSendMessage(args, b) ==
    /\ op = "none"
    /\ op' = "send_message"
    /\ call_args' = args
    /\ backend' = b
    /\ call_result' = IF provider = "gemini" THEN GeminiSendMessage(args, b)
                      ELSE ClaudeSendMessage(args, b)
    /\ UNCHANGED <<provider, gen, received, yielded, raised>>
    /\ UNCHANGED pipeVars
    /\ UNCHANGED parseVars
    /\ UNCHANGED codecVars
    /\ UNCHANGED renderVars
    /\ UNCHANGED concVars
    /\ UNCHANGED windowVars

\* provider.send_with_json_output(text, json_schema, images)
CallSendWithJsonOutput(args, b) ==
    /\ op = "none"
    /\ op' = "send_with_json_output"
    /\ call_args' = args
    /\ backend' = b
    /\ call_result' = IF provider = "gemini" THEN GeminiSendWithJsonOutput(b)
                      ELSE ClaudeSendWithJsonOutput(args, b)
    /\ UNCHANGED <<provider, gen, received, yielded, raised>>
    /\ UNCHANGED pipeVars
    /\ UNCHANGED parseVars
    /\ UNCHANGED codecVars
    /\ UNCHANGED renderVars
    /\ UNCHANGED concVars
    /\ UNCHANGED windowVars

\* provider.stream_response(...): the generator is created, none of its
\* body has run
CallStreamResponse(args, b) ==
    /\ op = "none"
    /\ op' = "stream_response"
    /\ call_args' = args
    /\ backend' = b
    /\ gen' = "created"
    /\ UNCHANGED <<provider, call_result, received, yielded, raised>>
    /\ UNCHANGED pipeVars
    /\ UNCHANGED parseVars
    /\ UNCHANGED codecVars
    /\ UNCHANGED renderVars
    /\ UNCHANGED concVars
    /\ UNCHANGED windowVars

\* a handler that swallows the exception and yields nothing
StreamFaultSilent(exc) ==
    /\ yielded' = yielded
    /\ gen' = "failed"
    /\ raised' = raised

\* an exception inside the try block: the handler yields the error chunk,
\* or the exception reaches the consumer
StreamFault(exc) ==
    IF StreamCatches(provider, exc)
    THEN /\ yielded' = Append(yielded, ErrorChunk(backend.msg))
         /\ gen' = "failed"
         /\ raised' = raised
    ELSE /\ yielded' = yielded
         /\ gen' = "ended"
         /\ raised' = exc

\* the first next(): the request is built and the stream opened
StreamOpens ==
    /\ gen = "created"
    /\ \E fault \in {StreamOpenFault(provider, call_args, backend)} :
          IF fault = ""
          THEN /\ gen' = "open"
               /\ UNCHANGED <<yielded, raised>>
          ELSE StreamFault(fault)
    /\ UNCHANGED <<provider, op, call_args, backend, call_result, received>>
    /\ UNCHANGED pipeVars
    /\ UNCHANGED parseVars
    /\ UNCHANGED codecVars
    /\ UNCHANGED renderVars
    /\ UNCHANGED concVars
    /\ UNCHANGED windowVars

\* the backend delivers a chunk: the loop yields its text, or skips it
StreamChunk(text) ==
    /\ gen = "open"
    /\ received < MaxChunks
    /\ received' = received + 1
    /\ yielded' = IF YieldsChunk(provider, text) THEN Append(yielded, text)
                  ELSE yielded
    /\ UNCHANGED <<provider, op, call_args, backend, call_result, gen, raised>>
    /\ UNCHANGED pipeVars
    /\ UNCHANGED parseVars
    /\ UNCHANGED codecVars
    /\ UNCHANGED renderVars
    /\ UNCHANGED concVars
    /\ UNCHANGED windowVars

\* the backend fails in the middle of the stream
StreamBreaks ==
    /\ gen = "open"
    /\ StreamFault("APIError")
    /\ UNCHANGED <<provider, op, call_args, backend, call_result, received>>
    /\ UNCHANGED pipeVars
    /\ UNCHANGED parseVars
    /\ UNCHANGED codecVars
    /\ UNCHANGED renderVars
    /\ UNCHANGED concVars
    /\ UNCHANGED windowVars

\* the stream is exhausted, or the consumer resumes the generator after the
\* error chunk: the generator returns
StreamEnds ==
    /\ gen \in {"open", "failed"}
    /\ gen' = "ended"
    /\ UNCHANGED <<provider, op, call_args, backend, call_result, received,
                   yielded, raised>>
    /\ UNCHANGED pipeVars
    /\ UNCHANGED parseVars
    /\ UNCHANGED codecVars
    /\ UNCHANGED renderVars
    /\ UNCHANGED concVars
    /\ UNCHANGED windowVars

ProviderNext ==
    \/ \E args \in Requests, b \in ProviderBackends : CallSendMessage(args, b)
    \/ \E args \in Requests, b \in JsonBackends :
            CallSendWithJsonOutput(args, b)
    \/ \E args \in Requests, b \in ProviderBackends :
            CallStreamResponse(args, b)
    \/ StreamOpens
    \/ \E text \in ChunkTexts : StreamChunk(text)
    \/ StreamBreaks
    \/ StreamEnds

ProviderSpec == ProviderInit /\ [][ProviderNext]_vars

-----------------------------------------------------------------------------
(* Claims about SmartGeminiProvider.send_message, under Spec. *)

IsSchemaCall(c) == c.fn = "send_with_json_output"
IsPlainCall(c) == c.fn = "send_message"
InPath(st) == \E k \in 1..Len(path) : path[k] = st
HasKey(d, key) == \E k \in 1..Len(d.o) : d.o[k][1] = W(key)
LastCall == calls[Len(calls)]

\* the response and the metadata of a returned result
ResponseOf(r) == DictGet(r.v, W("response"), Null)
MetadataOf(r) == DictGet(r.v, W("metadata"), Obj(<<>>))

\* the caller's arguments, as a plain call takes them
OriginalArgs ==
    [text |-> req.text, images |-> req.images,
     audio_file |-> req.audio_file, system_prompt |-> req.system_prompt]

\* the text a plain call answers with: the backend's, or the error marker
\* and message
IsPlainTextOf(text, c) ==
    \/ text = c.reply.text
    \/ text = <<"Error:", " ">> \o c.reply.msg

\* the result is what one plain call with the original inputs returned, and
\* holds nothing of Stage 1 or Stage 2
IsPlainResult ==
    /\ result.exc = ""
    /\ IsPlainCall(LastCall)
    /\ LastCall.args = OriginalArgs
    /\ result = GeminiSendMessage(OriginalArgs, LastCall.reply)
    /\ ~HasKey(MetadataOf(result), "problem_info")
    /\ ~HasKey(MetadataOf(result), "raw_solution")

KnownTypes == {S("coding"), S("multiple_choice"), S("math"), S("general")}

\* C1: send_message never lets an exception out: whatever the backend does
\* in any stage, it returns a result whose response is a string, the
\* rendered text of the structured path or the text of a plain call.
C1_AlwaysReturnsText ==
    pc = "Done" =>
        /\ result.exc = ""
        /\ IsStr(ResponseOf(result))
        /\ \/ /\ InPath("Formatting") /\ ~InPath("Degraded")
              /\ FormatSolutionMarkdown(solution_data, problem_info)
                    = Ret(ResponseOf(result))
           \/ /\ IsPlainCall(LastCall)
              /\ IsPlainTextOf(ResponseOf(result).s, LastCall)

\* a stage faulted and the fallback call failed too: still a string
C1_Witness ==
    /\ pc = "Done"
    /\ InPath("Degraded")
    /\ LastCall.reply.send # ""
    /\ ResponseOf(result) = Str(<<"Error:", " ">> \o LastCall.reply.msg)

\* C2 as stated: when the backend call of Stage 1 fails with an exception
\* the pipeline degrades: no Stage 2 call is issued and the result is that
\* of one plain call, without problem_info or solution data.
C2_Stage1ExceptionDegrades ==
    (/\ Len(calls) >= 1
     /\ IsSchemaCall(calls[1])
     /\ (calls[1].reply.send # "" \/ calls[1].reply.read # ""))
    => /\ \A k \in 2..Len(calls) : ~IsSchemaCall(calls[k])
       /\ pc = "Done" => IsPlainResult

\* C3 as stated: when Stage 1 returns a problem_type that is none of the
\* four, the result is that of one plain call with the original inputs,
\* without problem_info or solution data.
C3_UnknownTypeDegrades ==
    (/\ pc = "Done"
     /\ problem_info # Unset
     /\ IsDict(problem_info)
     /\ HasKey(problem_info, "problem_type")
     /\ DictGet(problem_info, W("problem_type"), Null) \notin KnownTypes)
    => IsPlainResult

\* C4: without an image (None or an empty list) exactly one plain call is
\* issued, with the original text, audio reference and system prompt; no
\* schema call, no classification, generation or rendering happens, and the
\* call's result is returned.
C4_NoImagePlainCall ==
    (req.images = PyNone \/ req.images = Arr(<<>>)) =>
        /\ \A k \in 1..Len(calls) : IsPlainCall(calls[k])
        /\ Len(calls) <= 1
        /\ problem_info = Unset /\ solution_data = Unset
        /\ ~InPath("Classifying") /\ ~InPath("Generating")
        /\ ~InPath("Formatting") /\ ~InPath("Degraded")
        /\ pc # "Idle" => (Len(calls) = 1 /\ calls[1].args = OriginalArgs)
        /\ pc = "Done" =>
              /\ result = GeminiSendMessage(OriginalArgs, calls[1].reply)
              /\ IsPlainTextOf(ResponseOf(result).s, calls[1])

C4_Witness ==
    /\ pc = "Done"
    /\ req.images = Arr(<<>>)
    /\ req.audio_file # PyNone /\ req.system_prompt # PyNone
    /\ calls[1].reply.send = "" /\ calls[1].reply.read = ""
    /\ calls[1].reply.pre = ""
    /\ ResponseOf(result) = Str(calls[1].reply.text)

\* C5: once the pipeline is Degraded exactly one plain call is issued, the
\* last call, with the caller's original text, images, audio reference and
\* system prompt; its response is the final text and nothing of Stage 1 or
\* Stage 2 is in the result.
C5_DegradedPlainCall ==
    InPath("Degraded") =>
        /\ Cardinality({k \in 1..Len(calls) : IsPlainCall(calls[k])}) = 1
        /\ IsPlainCall(LastCall)
        /\ LastCall.args = OriginalArgs
        /\ pc = "Done" =>
              /\ IsPlainResult
              /\ IsPlainTextOf(ResponseOf(result).s, LastCall)

\* degraded after both stages ran, every original argument set
C5_Witness ==
    /\ pc = "Done"
    /\ InPath("Degraded")
    /\ Len(calls) = 3
    /\ req.audio_file # PyNone /\ req.system_prompt # PyNone
    /\ req.text # Str(<<>>)
    /\ LastCall.reply.text # <<>>
    /\ ResponseOf(result) = Str(LastCall.reply.text)

\* C6: on the path through Formatting the result carries the ProblemInfo
\* as Stage 1 returned it and the SolutionData as Stage 2 returned it, its
\* text is the renderer's output for that pair, and only on this path does
\* a result carry them.
C6_StructuredResult ==
    /\ (Len(calls) >= 2 /\ IsSchemaCall(calls[1])) =>
            Ret(problem_info) = GeminiSendWithJsonOutput(calls[1].reply)
    /\ pc = "Done" =>
        /\ (InPath("Formatting") /\ ~InPath("Degraded")) =>
              /\ Len(calls) = 2
              /\ Ret(solution_data) = GeminiSendWithJsonOutput(calls[2].reply)
              /\ result.exc = ""
              /\ DictGet(MetadataOf(result), W("problem_info"), Null)
                    = problem_info
              /\ DictGet(MetadataOf(result), W("raw_solution"), Null)
                    = solution_data
              /\ FormatSolutionMarkdown(solution_data, problem_info)
                    = Ret(ResponseOf(result))
        /\ (result.exc = "" /\ (~InPath("Formatting") \/ InPath("Degraded"))) =>
              /\ ~HasKey(MetadataOf(result), "problem_info")
              /\ ~HasKey(MetadataOf(result), "raw_solution")

\* a coding problem solved on the structured path
C6_Witness ==
    /\ pc = "Done"
    /\ InPath("Formatting")
    /\ ~InPath("Degraded")
    /\ DictGet(problem_info, W("problem_type"), Null) = S("coding")
    /\ HasKey(solution_data, "solution")
    /\ problem_info # solution_data
    /\ \E k \in 1..Len(ResponseOf(result).s) :
            ResponseOf(result).s[k] = "Complexity"

-----------------------------------------------------------------------------
(* Response texts for the parser: up to MaxTokens tokens, each a fence     *)
(* marker, whitespace, a JSON fragment or a letter.                        *)

ParseTokens ==
    {JsonMarker, FenceMarker, <<" ">>, <<"1">>, <<"[">>, <<"]">>, <<"x">>}

TokenSeqs == UNION {[1..n -> ParseTokens] : n \in 0..MaxTokens}

ParseTexts == {Concat(ts) : ts \in TokenSeqs}

ParseInit ==
    /\ response_text \in ParseTexts
    /\ parsed = Ret(Null)
    /\ pphase = "text"
    /\ pc = "Off"
    /\ req = Unset
    /\ calls = <<>>
    /\ problem_info = Unset
    /\ solution_data = Unset
    /\ result = Ret(Unset)
    /\ path = <<>>
    /\ ProviderOff
    /\ CodecOff
    /\ RenderOff
    /\ ConcOff
    /\ WindowOff

\* parse_structured_output(response_text)
ParseResponse ==
    /\ pphase = "text"
    /\ parsed' = ParseStructuredOutput(response_text)
    /\ pphase' = "parsed"
    /\ UNCHANGED response_text
    /\ UNCHANGED pipeVars
    /\ UNCHANGED provVars
    /\ UNCHANGED codecVars
    /\ UNCHANGED renderVars
    /\ UNCHANGED concVars
    /\ UNCHANGED windowVars

\* text put around a response: before its marker or after its closing fence
GarbageTokens == {<<"x">>, <<"]">>, FenceMarker}

\* parse_structured_output of the same response with garbage before it
\* (side = "before") or after it (side = "after")
Surround(g, side) ==
    /\ pphase = "parsed"
    /\ response_text' = IF side = "before" THEN g \o response_text
                        ELSE response_text \o g
    /\ parsed' = ParseStructuredOutput(response_text')
    /\ pphase' = "reparsed"
    /\ UNCHANGED pipeVars
    /\ UNCHANGED provVars
    /\ UNCHANGED codecVars
    /\ UNCHANGED renderVars
    /\ UNCHANGED concVars
    /\ UNCHANGED windowVars

ParseNext ==
    \/ ParseResponse
    \/ \E g \in GarbageTokens, side \in {"before", "after"} : Surround(g, side)

ParseSpec == ParseInit /\ [][ParseNext]_vars

-----------------------------------------------------------------------------
(* The fenced slice of a text, stated on positions: the first JSON-labelled *)
(* marker and the first closing fence that starts after the marker's end.  *)

IsFirstMarker(text, i) ==
    /\ MatchAt(text, JsonMarker, i)
    /\ \A k \in 0..(i - 1) : ~MatchAt(text, JsonMarker, k)

IsNextFence(text, i, j) ==
    /\ j >= i + MarkerLen
    /\ MatchAt(text, FenceMarker, j)
    /\ \A k \in (i + MarkerLen)..(j - 1) : ~MatchAt(text, FenceMarker, k)

HasMarker(text) == \E i \in 0..Len(text) : MatchAt(text, JsonMarker, i)

HasClosedFence(text) ==
    \E i \in 0..Len(text), j \in 0..Len(text) :
        IsFirstMarker(text, i) /\ IsNextFence(text, i, j)

FencedPayload(text) ==
    LET i == CHOOSE a \in 0..Len(text) : IsFirstMarker(text, a)
        j == CHOOSE b \in 0..Len(text) : IsNextFence(text, i, b)
    IN  [k \in 1..(j - i - MarkerLen) |-> text[i + MarkerLen + k]]

\* some contiguous part of the text is JSON for v
IsJsonOfPart(text, v) ==
    \E a \in 1..(Len(text) + 1), b \in 0..Len(text) :
        JsonLoads(SubSeq(text, a, b)) = Ret(v)

-----------------------------------------------------------------------------
(* Claims about parse_structured_output, under ParseSpec. *)

\* C7: parse_structured_output never raises: it returns a value parsed from
\* the text or the sentinel {raw: text} holding the complete text, and a
\* text with no JSON marker that is not JSON yields the sentinel.
C7_ParseNeverRaises ==
    pphase # "text" =>
        /\ parsed.exc = ""
        /\ \/ parsed.v = RawSentinel(response_text)
           \/ IsJsonOfPart(response_text, parsed.v)
        /\ (~HasMarker(response_text) /\ JsonLoads(response_text).exc # "")
               => parsed.v = RawSentinel(response_text)

C7_Witness ==
    /\ pphase = "parsed"
    /\ ~HasMarker(response_text)
    /\ \E k \in 1..Len(response_text) : response_text[k] = "x"
    /\ JsonLoads(response_text).exc = "JSONDecodeError"
    /\ parsed = Ret(RawSentinel(response_text))

\* C8 as stated: for a text with a closed JSON fence, text before the marker
\* or after the closing fence does not affect the returned value.
C8_SurroundingTextIgnored ==
    [][(/\ pphase = "parsed"
        /\ pphase' = "reparsed"
        /\ HasClosedFence(response_text)
        /\ HasClosedFence(response_text')
        /\ FencedPayload(response_text') = FencedPayload(response_text))
       => parsed' = parsed]_vars

\* C8 amended: for a text with a closed JSON fence only the stripped slice
\* between the first marker and the next closing fence is parsed: if it is
\* JSON its value is returned whatever surrounds the fence, else the
\* sentinel {raw: whole text} is returned.
C8_FencedSliceParsed ==
    (pphase # "text" /\ HasClosedFence(response_text)) =>
        LET slice == JsonLoads(PyStrip(FencedPayload(response_text)))
        IN  parsed = IF slice.exc = "" THEN slice
                     ELSE Ret(RawSentinel(response_text))

\* garbage before the marker and after the closing fence, the slice parsed
C8_Witness ==
    /\ pphase = "reparsed"
    /\ HasClosedFence(response_text)
    /\ response_text[1] = "x"
    /\ response_text[Len(response_text)] = "]"
    /\ FencedPayload(response_text) = <<"1">>
    /\ parsed = Ret(Num(1))

-----------------------------------------------------------------------------
(* Claims about the providers' send_message and stream_response, under     *)
(* ProviderSpec.                                                           *)

ErrorMarker == <<"Error:", " ">>

\* the backend failed the direct call: an exception in the part of the try
\* block that the provider runs for these arguments
SendFailed ==
    \/ backend.send # ""
    \/ backend.read # ""
    \/ /\ backend.pre # ""
       /\ \/ provider = "gemini" /\ Truthy(call_args.audio_file)
          \/ provider = "claude" /\ Truthy(call_args.images)

\* C9: the plain call (send_message of the Gemini and of the Claude
\* provider) never raises; when the backend fails it returns a result whose
\* response starts with "Error: " and whose metadata has the key 'error'.
C9_PlainCallReturnsError ==
    op = "send_message" =>
        /\ call_result.exc = ""
        /\ IsStr(ResponseOf(call_result))
        /\ SendFailed =>
              /\ PyStartsWith(ResponseOf(call_result).s, ErrorMarker)
              /\ HasKey(MetadataOf(call_result), "error")
        /\ ~SendFailed => ~HasKey(MetadataOf(call_result), "error")

\* C9 happens: Claude's messages.create failed for a request with an image
\* and the caller got the error result
C9_Witness ==
    /\ op = "send_message"
    /\ provider = "claude"
    /\ Truthy(call_args.images)
    /\ backend.send # ""
    /\ call_result = Ret(ErrorResult(backend.msg))

IsPrefix(a, b) == Len(a) <= Len(b) /\ SubSeq(b, 1, Len(a)) = a

\* no exception has reached the consumer, and no more chunks were yielded
\* than the backend delivered, plus the error chunk
StreamBounded ==
    op = "stream_response" =>
        /\ raised = ""
        /\ Len(yielded) <= received + 1
        /\ gen = "failed" =>
              /\ yielded # <<>>
              /\ yielded[Len(yielded)] = ErrorChunk(backend.msg)
              /\ \A k \in 1..(Len(yielded) - 1) :
                    ~PyStartsWith(yielded[k], <<NL, NL, "Error:", " ">>)

\* one step of the generator: what was yielded stays, a failure adds the
\* error chunk and nothing else, and nothing follows the error chunk or the
\* generator's end
StreamStep ==
    /\ IsPrefix(yielded, yielded')
    /\ (gen \in {"created", "open"} /\ gen' = "failed") =>
            yielded' = Append(yielded, ErrorChunk(backend.msg))
    /\ gen \in {"failed", "ended"} => (yielded' = yielded /\ gen' = "ended")

\* C10: stream_response yields finitely many chunks and never raises to its
\* consumer; when the backend fails before or in the middle of the stream,
\* the chunks already yielded stay delivered, exactly one more chunk, the
\* error annotation, is yielded, and it is the last one.
C10_StreamEndsWithErrorChunk == []StreamBounded /\ [][StreamStep]_vars

\* C10 happens: the backend failed after a chunk was delivered, the consumer
\* got the chunk and then the error chunk, and the generator has ended
C10_Witness ==
    /\ op = "stream_response"
    /\ gen = "ended"
    /\ received >= 1
    /\ Len(yielded) = 2
    /\ yielded[1] = W("a")
    /\ yielded[2] = ErrorChunk(backend.msg)

-----------------------------------------------------------------------------
(* Claims about send_with_json_output, under ProviderSpec. *)

IsRawSentinel(v) ==
    /\ IsDict(v)
    /\ Len(v.o) = 1
    /\ v.o[1][1] = W("raw")
    /\ IsStr(v.o[1][2])

\* the backend raised while the schema call was made
JsonCallFailed ==
    \/ backend.send # ""
    \/ backend.read # ""
    \/ provider = "claude" /\ Truthy(call_args.images) /\ backend.pre # ""

\* C11 as stated: send_with_json_output returns what the parser returns for
\* the backend's response text: for every behaviour of the backend its
\* result is a value parsed from that text or a {raw: text} sentinel, and
\* no other shape.
C11_SchemaCallIsParserOutput ==
    op = "send_with_json_output" =>
        /\ call_result.exc = ""
        /\ ~JsonCallFailed => call_result = ParseStructuredOutput(backend.text)
        /\ \/ IsRawSentinel(call_result.v)
           \/ IsJsonOfPart(backend.text, call_result.v)

-----------------------------------------------------------------------------
(* Claims about encode_toon and decode_toon, under CodecSpec. *)

\* encode_toon did not get an encoding from the package
EncoderFellBack == codec \in {"missing", "raises"}

\* C12: encode_toon never raises for a JSON-safe value; when the compact
\* encoder is unavailable or throws it returns the generic JSON
\* serialization of the same value (json.dumps, which json.loads reads back
\* as that value).
C12_EncodeFallsBack ==
    cphase # "data" =>
        /\ encoded.exc = ""
        /\ IsStr(encoded.v)
        /\ EncoderFellBack =>
              /\ encoded.v.s = JsonDumps(cdata, 0)
              /\ JsonLoads(encoded.v.s) = Ret(cdata)

\* the encoder threw for a nested mapping and the JSON text came back
C12_Witness ==
    /\ cphase = "encoded"
    /\ codec = "raises"
    /\ IsDict(cdata)
    /\ Len(cdata.o) = 2
    /\ encoded = Ret(Str(JsonDumps(cdata, 0)))
    /\ PyContains(encoded.v.s, <<"{", NL, " ", " ", "\"">>)

\* C13 as stated: decode_toon applied to the generic serialization that
\* encode_toon returned on a fault recovers the value, whether the codec is
\* unavailable or available but failing, and does not raise.
C13_FallbackRoundTrip ==
    (cphase = "decoded" /\ EncoderFellBack) => decoded = Ret(cdata)

-----------------------------------------------------------------------------
(* Claims about _format_solution_markdown, under RenderSpec. *)

\* the 0-based positions at which pat stands in text
Occurrences(text, pat) == {i \in 0..Len(text) : MatchAt(text, pat, i)}
PosOf(text, pat) == CHOOSE i \in Occurrences(text, pat) : TRUE
Once(text, pat) == Cardinality(Occurrences(text, pat)) = 1
Shown(text, pat) == Occurrences(text, pat) # {}

HdrSteps == <<"###", " ", "Algorithm", " ", "Steps", NL>>
HdrEdges == <<"###", " ", "Edge", " ", "Cases", NL>>
HdrCode == <<"###", " ", "Code", " ", "Section", NL>>
HdrComplexity == <<"###", " ", "Complexity", NL>>
HdrAnalysis == <<"###", " ", "Analysis", NL>>
HdrSolution == <<"###", " ", "Solution", NL>>

\* the arguments of the call, as the renderer reads them
ArgType == DictGet(r_info, W("problem_type"), S("general"))
ArgSol == DictGet(r_solution, W("solution"), Obj(<<>>))
ArgField(key) == DictGet(ArgSol, W(key), Null)
ArgLang ==
    DictGet(DictGet(r_info, W("details"), Obj(<<>>)), W("language"),
            S("python"))
Given(key) == Truthy(ArgField(key))

\* the badge of the call's type: "**Type:** `MATH`\n\n"
ArgBadge == <<"**Type:**", " ", BT>> \o PyUpper(ArgType.s) \o <<BT, NL, NL>>

AllFiveGiven ==
    /\ Given("algorithm_steps") /\ Given("edge_cases") /\ Given("code")
    /\ Given("time_complexity") /\ Given("space_complexity")

\* C14: for problem_type coding and all five fields populated the text is
\* the badge, then Algorithm Steps, Edge Cases, Code Section, Complexity in
\* this order, each exactly once, and the code stands in a fence: the one
\* the renderer puts around unfenced code, labelled with the language.
C14_CodingSectionOrder ==
    (rphase # "args" /\ ArgType = S("coding") /\ AllFiveGiven) =>
        /\ rendered.exc = ""
        /\ LET text == rendered.v.s
           IN  /\ PyStartsWith(text, ArgBadge)
               /\ Once(text, <<"**Type:**">>)
               /\ Once(text, HdrSteps) /\ Once(text, HdrEdges)
               /\ Once(text, HdrCode) /\ Once(text, HdrComplexity)
               /\ Cardinality(Occurrences(text, <<"###">>)) = 4
               /\ PosOf(text, HdrSteps) = Len(ArgBadge)
               /\ PosOf(text, HdrSteps) < PosOf(text, HdrEdges)
               /\ PosOf(text, HdrEdges) < PosOf(text, HdrCode)
               /\ PosOf(text, HdrCode) < PosOf(text, HdrComplexity)
               /\ PyStartsWith(PyStrip(PySlice(text,
                                               PosOf(text, HdrCode)
                                                   + Len(HdrCode),
                                               Len(text))),
                               FenceMarker)
               /\ ArgField("code") = S("pass") =>
                     MatchAt(text,
                             HdrCode \o <<BT, BT, BT, " ">> \o ArgLang.s
                                 \o <<NL, "pass", NL, BT, BT, BT, NL, NL>>
                                 \o HdrComplexity,
                             PosOf(text, HdrCode))

\* a coding solution with all five fields, its code unfenced, rendered with
\* the language of the details
C14_Witness ==
    /\ rphase = "rendered"
    /\ ArgType = S("coding")
    /\ AllFiveGiven
    /\ ArgField("code") = S("pass")
    /\ ArgLang = S("js")
    /\ rendered.exc = ""
    /\ PyContains(rendered.v.s, <<BT, BT, BT, " ", "js", NL, "pass", NL>>)

\* C15: for a type other than coding with answer and reasoning both
\* non-empty the text is the badge, the Analysis section with the reasoning
\* and then the Solution section with the answer: two sections, none of the
\* coding sections, whatever coding fields the data holds.
C15_NonCodingSections ==
    (rphase # "args" /\ ArgType # S("coding")
        /\ Given("answer") /\ Given("reasoning")) =>
        /\ rendered.exc = ""
        /\ LET text == rendered.v.s
           IN  /\ text = ArgBadge \o HdrAnalysis \o ArgField("reasoning").s
                            \o <<NL, NL>> \o HdrSolution \o ArgField("answer").s
               /\ Cardinality(Occurrences(text, <<"###">>)) = 2
               /\ PosOf(text, HdrAnalysis) < PosOf(text, HdrSolution)
               /\ ~Shown(text, HdrSteps) /\ ~Shown(text, HdrEdges)
               /\ ~Shown(text, HdrCode) /\ ~Shown(text, HdrComplexity)

\* a math problem whose data holds every coding field too
C15_Witness ==
    /\ rphase = "rendered"
    /\ ArgType = S("math")
    /\ AllFiveGiven
    /\ Given("answer") /\ Given("reasoning")
    /\ rendered.exc = ""
    /\ Once(rendered.v.s, HdrAnalysis)

\* C16: whatever keys of the SolutionData and of the ProblemInfo are absent
\* or empty, the renderer returns a text that begins with the type badge
\* and does not raise, and a section is shown exactly when a key it is
\* made from is populated.
C16_RendererTotal ==
    rphase # "args" =>
        /\ rendered.exc = ""
        /\ IsStr(rendered.v)
        /\ LET text == rendered.v.s
           IN  /\ PyStartsWith(text, ArgBadge)
               /\ IF ArgType = S("coding")
                  THEN /\ Shown(text, HdrSteps) <=>
                            (Given("algorithm_steps") \/ Given("reasoning"))
                       /\ Shown(text, HdrEdges) <=> Given("edge_cases")
                       /\ Shown(text, HdrCode) <=>
                            (Given("code") \/ Given("answer"))
                       /\ Shown(text, HdrComplexity) <=>
                            (Given("time_complexity")
                                \/ Given("space_complexity"))
                       /\ ~Shown(text, HdrAnalysis)
                       /\ ~Shown(text, HdrSolution)
                  ELSE /\ Shown(text, HdrAnalysis) <=> Given("reasoning")
                       /\ Shown(text, HdrSolution) <=> Given("answer")
                       /\ ~Shown(text, HdrSteps) /\ ~Shown(text, HdrEdges)
                       /\ ~Shown(text, HdrCode)
                       /\ ~Shown(text, HdrComplexity)

\* both mappings entirely empty: the badge alone
C16_Witness ==
    /\ rphase = "rendered"
    /\ r_solution = Obj(<<>>)
    /\ r_info = Obj(<<>>)
    /\ rendered = Ret(Str(<<"**Type:**", " ", BT, "GENERAL", BT, NL, NL>>))

\* the second call on the same arguments returned what the first returned
SameTextAgain == rphase = "again" => r_again = rendered

\* a step leaves both arguments as they were
ArgsKept == r_solution' = r_solution /\ r_info' = r_info

-----------------------------------------------------------------------------
(* Claims about the states and the calls of send_message, under Spec. *)

\* the complete runs of the state machine
LegalPaths ==
    {<<"Idle", "Done">>,
     <<"Idle", "Classifying", "Generating", "Formatting", "Done">>,
     <<"Idle", "Classifying", "Degraded", "Done">>,
     <<"Idle", "Classifying", "Generating", "Degraded", "Done">>,
     <<"Idle", "Classifying", "Generating", "Formatting", "Degraded",
       "Done">>}

\* the states entered so far are the start of a complete run
OnLegalPath == \E run \in LegalPaths : IsPrefix(path, run)

\* the backend call of a stage raised
BackendRaised ==
    \E k \in 1..Len(calls) :
        /\ IsSchemaCall(calls[k])
        /\ (calls[k].reply.send # "" \/ calls[k].reply.read # "")

\* the code of a stage raised on the data it was given: Stage 2 on a
\* ProblemInfo without get, the renderer on wrongly typed data
StageRaised ==
    \/ problem_info # Unset /\ ~IsDict(problem_info)
    \/ /\ solution_data # Unset
       /\ FormatSolutionMarkdown(solution_data, problem_info).exc # ""

\* C19 as stated: the pipeline takes only the transitions Idle, Classifying,
\* Generating, Formatting, Done, Idle to Done without an image, and from a
\* stage to Degraded to Done; Degraded is entered if and only if an
\* exception occurs in Classifying, Generating or Formatting; Done is
\* terminal and no stage is entered after Degraded.
C19_DegradedIffException ==
    /\ OnLegalPath
    /\ (pc = "Done") = (path # <<>> /\ path[Len(path)] = "Done")
    /\ pc = "Done" => ~ENABLED Next
    /\ pc = "Done" => (InPath("Degraded") <=> (BackendRaised \/ StageRaised))

\* the part of C19 that holds: the transitions, and Degraded exactly when an
\* exception reaches the except clause of send_message
C19_DegradedIffStageRaised ==
    /\ OnLegalPath
    /\ (pc = "Done") = (path # <<>> /\ path[Len(path)] = "Done")
    /\ pc = "Done" => ~ENABLED Next
    /\ pc = "Done" => (InPath("Degraded") <=> StageRaised)

\* the contexts encode_toon may have returned for info
EncodingsOf(info) == {EncodeToon(info, toon) : toon \in ToonModes}

\* C20: with an image the calls are made one after the other: Stage 1's
\* schema call, then at most one Stage 2 schema call, issued after Stage 1
\* returned, whose prompt holds the encoding of the ProblemInfo Stage 1
\* returned, then at most one fallback plain call; never more than three
\* calls, no stage twice, and exactly two calls on the path that is not
\* degraded.
C20_CallsInSequence ==
    (pc # "Idle" /\ Truthy(req.images)) =>
        /\ Len(calls) \in 1..3
        /\ \A k \in 1..(Len(calls) - 1) : calls[k].reply # Pending
        /\ IsSchemaCall(calls[1])
        /\ calls[1] = [ClassifyCall(req) EXCEPT !.reply = calls[1].reply]
        /\ Cardinality({k \in 1..Len(calls) : IsSchemaCall(calls[k])}) <= 2
        /\ Cardinality({k \in 1..Len(calls) : IsPlainCall(calls[k])}) <= 1
        /\ \A k \in 1..Len(calls) :
              IsPlainCall(calls[k]) => (k = Len(calls) /\ InPath("Degraded"))
        /\ \A k \in 2..Len(calls) :
              IsSchemaCall(calls[k]) =>
                  /\ k = 2
                  /\ Ret(problem_info)
                        = GeminiSendWithJsonOutput(calls[1].reply)
                  /\ calls[2].args.text.context_str
                        \in EncodingsOf(problem_info)
                  /\ calls[2].args.images = PyNone
        /\ (pc = "Done" /\ ~InPath("Degraded")) =>
              (Len(calls) = 2 /\ IsSchemaCall(calls[2]))

\* both stages ran and the fallback call followed: three calls, the second
\* holding the encoding of a ProblemInfo with three keys
C20_Witness ==
    /\ pc = "Done"
    /\ Truthy(req.images)
    /\ Len(calls) = 3
    /\ IsSchemaCall(calls[2])
    /\ IsPlainCall(calls[3])
    /\ IsDict(problem_info)
    /\ Len(problem_info.o) = 3
    /\ calls[2].args.text.context_str = ToonEncode(problem_info)

-----------------------------------------------------------------------------
(* Claims about two interleaved invocations, under ConcSpec. *)

\* what the schema call number k of invocation i returned, from its reply
OwnSchemaOutput(i, k) == GeminiSendWithJsonOutput(t_calls[i][k].reply).v

\* the result of invocation i as its own request and the replies to its own
\* calls determine it
OwnResult(i) ==
    LET own == t_calls[i]
        last == own[Len(own)]
    IN  IF IsPlainCall(last)
        THEN GeminiSendMessage(PlainCallArgs(t_req[i]), last.reply)
        ELSE Ret(StructuredResult(
                    FormatSolutionMarkdown(OwnSchemaOutput(i, 2),
                                           OwnSchemaOutput(i, 1)).v,
                    OwnSchemaOutput(i, 1), OwnSchemaOutput(i, 2)))

\* every invocation holds what its own inputs and replies determine
OwnData ==
    \A i \in Invocations :
        /\ \A k \in 1..Len(t_calls[i]) :
              /\ IsPlainCall(t_calls[i][k]) =>
                    t_calls[i][k].args = PlainCallArgs(t_req[i])
              /\ (IsSchemaCall(t_calls[i][k]) /\ k = 1) =>
                    t_calls[i][k].args = ClassifyCall(t_req[i]).args
              /\ (IsSchemaCall(t_calls[i][k]) /\ k = 2) =>
                    t_calls[i][k].args.text.context_str
                        \in EncodingsOf(OwnSchemaOutput(i, 1))
        /\ t_info[i] =
              IF Len(t_calls[i]) >= 2 /\ IsSchemaCall(t_calls[i][1])
              THEN OwnSchemaOutput(i, 1) ELSE Unset
        /\ t_sol[i] =
              IF /\ Len(t_calls[i]) >= 2
                 /\ IsSchemaCall(t_calls[i][2])
                 /\ t_calls[i][2].reply # Pending
              THEN OwnSchemaOutput(i, 2) ELSE Unset
        /\ t_result[i] =
              IF t_pc[i] = "Done" THEN OwnResult(i) ELSE Ret(Unset)

\* a step changes what one invocation holds and nothing of the other
OneInvocationMoves ==
    \E i \in Invocations : \A j \in Invocations \ {i} :
        /\ t_pc'[j] = t_pc[j] /\ t_req'[j] = t_req[j]
        /\ t_calls'[j] = t_calls[j] /\ t_info'[j] = t_info[j]
        /\ t_sol'[j] = t_sol[j] /\ t_result'[j] = t_result[j]

\* C18: two invocations interleaved on the same provider do not interfere:
\* the ProblemInfo, the SolutionData and the result of each are those its
\* own inputs and the backend's replies to its own calls determine, and no
\* step of one changes anything the other holds, in every interleaving.
C18_NoInterference == []OwnData /\ [][OneInvocationMoves]_vars

\* both invocations are between Stage 1 and Stage 2's return, each with a
\* ProblemInfo of its own
C18_Witness ==
    /\ t_pc = [i \in Invocations |-> "Generating"]
    /\ t_info[1] # t_info[2]
    /\ IsDict(t_info[1]) /\ IsDict(t_info[2])
    /\ t_req[1] # t_req[2]

-----------------------------------------------------------------------------
(* Claims about the handling of Stage 1's and Stage 2's values, under      *)
(* Spec.                                                                   *)

\* the role and the schema of the coding branch, and of the other branch
CodingRole == "senior software engineer"
CodingSchema ==
    <<"algorithm_steps", "code", "time_complexity", "space_complexity",
      "edge_cases">>
OtherRole == "helpful expert assistant"
OtherSchema == <<"answer", "reasoning">>

\* the problem_type Stage 1 returned, None when it returned none
ReturnedType ==
    IF IsDict(problem_info) THEN DictGet(problem_info, W("problem_type"), Null)
    ELSE Null

\* the Stage 2 call, once issued
Stage2Issued == Len(calls) >= 2 /\ IsSchemaCall(calls[2])

\* C21: Stage 2 takes its role and its schema from problem_type alone: the
\* senior-engineer role and the five-key schema exactly when it is coding,
\* the expert-assistant role and the answer/reasoning schema for every other
\* value, whatever the other fields of the ProblemInfo and the request are.
C21_RoleFromProblemType ==
    Stage2Issued =>
        LET text == calls[2].args.text
            schema == calls[2].args.json_schema
        IN  IF ReturnedType = S("coding")
            THEN text.role_prompt = CodingRole /\ schema = CodingSchema
            ELSE text.role_prompt = OtherRole /\ schema = OtherSchema

\* a general problem whose statement is the word coding, sent with a text
\* and a system prompt: the expert-assistant role
C21_Witness ==
    /\ Stage2Issued
    /\ ReturnedType = S("general")
    /\ DictGet(problem_info, W("problem_statement"), Null) = S("coding")
    /\ req.system_prompt # PyNone
    /\ calls[2].args.text.role_prompt = OtherRole
    /\ calls[2].args.json_schema = OtherSchema

\* Stage 1 returned a mapping without problem_type
LacksType ==
    /\ problem_info # Unset
    /\ IsDict(problem_info)
    /\ ~HasKey(problem_info, "problem_type")

\* Stage 1 returned a coding ProblemInfo without details, or with details
\* that name no language
LacksLanguage ==
    /\ ReturnedType = S("coding")
    /\ \/ ~HasKey(problem_info, "details")
       \/ /\ IsDict(DictGet(problem_info, W("details"), Null))
          /\ ~HasKey(DictGet(problem_info, W("details"), Null), "language")

\* the value under the solution key of what Stage 2 returned, {} for none
ReturnedSolution ==
    IF IsDict(solution_data)
    THEN DictGet(solution_data, W("solution"), Obj(<<>>))
    ELSE Null

\* send_message returned the structured result with this text
StructuredWith(text) ==
    /\ ~InPath("Degraded")
    /\ InPath("Formatting")
    /\ result.exc = ""
    /\ text.exc = ""
    /\ ResponseOf(result) = text.v
    /\ DictGet(MetadataOf(result), W("problem_info"), Null) = problem_info
    /\ DictGet(MetadataOf(result), W("raw_solution"), Null) = solution_data

\* C22: a ProblemInfo that lacks problem_type, the {raw: text} sentinel
\* included, is not rejected: Stage 2 runs with the role and schema of type
\* general, the renderer shows the badge GENERAL and the sections of the
\* non-coding branch, and the structured result is returned without
\* Degraded; a coding ProblemInfo without details or without a language is
\* rendered as one with empty details, its code tagged with the default.
C22_DefaultsForAbsentKeys ==
    /\ LacksType =>
          /\ Stage2Issued
          /\ path[3] = "Generating"
          /\ calls[2].args.text.role_prompt = OtherRole
          /\ calls[2].args.json_schema = OtherSchema
          /\ (pc = "Done" /\ IsDict(ReturnedSolution)) =>
                /\ StructuredWith(WithBadge(S("general"),
                                            OtherSections(ReturnedSolution)))
                /\ PyStartsWith(ResponseOf(result).s,
                                <<"**Type:**", " ", BT, "GENERAL", BT>>)
    /\ (/\ pc = "Done"
        /\ LacksLanguage
        /\ IsDict(ReturnedSolution)
        /\ CodingSections(ReturnedSolution, Obj(<<>>)).exc = "") =>
          /\ StructuredWith(WithBadge(S("coding"),
                                      CodingSections(ReturnedSolution,
                                                     Obj(<<>>))))
          /\ DictGet(ReturnedSolution, W("code"), Null) = S("pass") =>
                PyContains(ResponseOf(result).s,
                           <<BT, BT, BT, " ", "python", NL, "pass", NL>>)

\* Stage 1's reply was no JSON: the sentinel is the ProblemInfo, and the
\* answer of Stage 2 is returned under the badge GENERAL
C22_Witness ==
    /\ pc = "Done"
    /\ IsRawSentinel(problem_info)
    /\ ~InPath("Degraded")
    /\ result.exc = ""
    /\ ResponseOf(result)
          = Str(<<"**Type:**", " ", BT, "GENERAL", BT, NL, NL>>
                \o HdrAnalysis \o <<"sum", NL, NL>>
                \o HdrSolution \o <<"four">>)

\* Stage 2 returned a mapping without the solution wrapper
LacksWrapper ==
    /\ solution_data # Unset
    /\ IsDict(solution_data)
    /\ ~HasKey(solution_data, "solution")

\* the problem_type the renderer reads from the ProblemInfo
RenderedType == DictGet(problem_info, W("problem_type"), S("general"))

\* C24: a Stage 2 value without the solution wrapper, the {raw: text}
\* sentinel included, is an empty solution and no parse error: the pipeline
\* does not degrade, the rendered text is the type badge alone, without a
\* section, and it is returned in the structured result.
C24_MissingWrapperIsEmpty ==
    (pc = "Done" /\ LacksWrapper /\ IsStr(RenderedType)) =>
        /\ path = <<"Idle", "Classifying", "Generating", "Formatting",
                    "Done">>
        /\ Len(calls) = 2
        /\ StructuredWith(Ret(Str(TypeBadge(RenderedType))))
        /\ ~PyContains(ResponseOf(result).s, <<"###">>)

\* Stage 2's reply was no JSON, for a coding problem: the badge alone
C24_Witness ==
    /\ pc = "Done"
    /\ IsRawSentinel(solution_data)
    /\ ReturnedType = S("coding")
    /\ HasKey(problem_info, "details")
    /\ ~InPath("Degraded")
    /\ ResponseOf(result) = Str(<<"**Type:**", " ", BT, "CODING", BT, NL, NL>>)

-----------------------------------------------------------------------------
(* Further claims about _format_solution_markdown, under RenderSpec. *)

\* the call's problem_type is a text that is none of the four known types
UnknownType ==
    /\ HasKey(r_info, "problem_type")
    /\ IsStr(ArgType)
    /\ ArgType \notin KnownTypes

\* C23: for a problem type that is none of the known four the renderer
\* takes the non-coding branch: the badge of that type, then Analysis when
\* there is reasoning and Solution when there is an answer, no coding
\* section whatever coding fields are populated, and no exception.
C23_UnknownTypeNonCoding ==
    (rphase # "args" /\ UnknownType) =>
        /\ rendered.exc = ""
        /\ LET text == rendered.v.s
           IN  /\ text = ArgBadge
                        \o (IF Given("reasoning")
                            THEN HdrAnalysis \o ArgField("reasoning").s
                                     \o <<NL, NL>>
                            ELSE <<>>)
                        \o (IF Given("answer")
                            THEN HdrSolution \o ArgField("answer").s
                            ELSE <<>>)
               /\ ~Shown(text, HdrSteps) /\ ~Shown(text, HdrEdges)
               /\ ~Shown(text, HdrCode) /\ ~Shown(text, HdrComplexity)

\* the type essay with every coding field populated and no reasoning: the
\* badge and the Solution section alone
C23_Witness ==
    /\ rphase = "rendered"
    /\ ArgType = S("essay")
    /\ AllFiveGiven
    /\ Given("answer") /\ ~Given("reasoning")
    /\ rendered
          = Ret(Str(<<"**Type:**", " ", BT, "ESSAY", BT, NL, NL>>
                    \o HdrSolution \o <<"four">>))

\* the headings of the coding branch in their fixed order
CodingHeadings == <<HdrSteps, HdrEdges, HdrCode, HdrComplexity>>

\* the first given of two fields, as text
FirstGiven(key, fallback) ==
    IF Given(key) THEN ArgField(key).s ELSE ArgField(fallback).s

\* "- {ec}\n" for every element of edge_cases, in order
Bullets ==
    Concat([k \in 1..Len(ArgField("edge_cases").a) |->
                <<"-", " ">> \o ArgField("edge_cases").a[k].s \o <<NL>>])

TimeLine == <<"-", " ", "**Time**:", " ">>
SpaceLine == <<"-", " ", "**Space**:", " ">>

\* C25: in the coding branch a section is emitted exactly when its source
\* is non-empty: Algorithm Steps from algorithm_steps, else from reasoning;
\* Edge Cases for a non-empty sequence only, one bullet per element in
\* order; Code Section from code, else from answer; the Complexity heading
\* when time or space complexity is present, the Time line and the Space
\* line each on its own; and for every subset of populated fields the
\* sections shown stand in the fixed order, each once.
C25_CodingSectionsIffSource ==
    (rphase # "args" /\ ArgType = S("coding")) =>
        /\ rendered.exc = ""
        /\ LET text == rendered.v.s
           IN  /\ Shown(text, HdrSteps) <=>
                      (Given("algorithm_steps") \/ Given("reasoning"))
               /\ Shown(text, HdrSteps) =>
                      Shown(text, HdrSteps
                                  \o FirstGiven("algorithm_steps", "reasoning")
                                  \o <<NL, NL>>)
               /\ Shown(text, HdrEdges) <=> Given("edge_cases")
               /\ Given("edge_cases") =>
                      Shown(text, HdrEdges \o Bullets \o <<NL>>)
               /\ Cardinality(Occurrences(text, <<"-", " ">>))
                      = (IF Given("edge_cases")
                         THEN Len(ArgField("edge_cases").a) ELSE 0)
                        + (IF Given("time_complexity") THEN 1 ELSE 0)
                        + (IF Given("space_complexity") THEN 1 ELSE 0)
               /\ Shown(text, HdrCode) <=> (Given("code") \/ Given("answer"))
               /\ Shown(text, HdrCode) =>
                      /\ Shown(text, FirstGiven("code", "answer"))
                      /\ (Given("code") /\ Given("answer")) =>
                            ~Shown(text, ArgField("answer").s)
               /\ Shown(text, HdrComplexity) <=>
                      (Given("time_complexity") \/ Given("space_complexity"))
               /\ IF Given("time_complexity")
                  THEN Once(text, TimeLine \o ArgField("time_complexity").s
                                      \o <<NL>>)
                  ELSE ~Shown(text, <<"**Time**:">>)
               /\ IF Given("space_complexity")
                  THEN Once(text, SpaceLine \o ArgField("space_complexity").s
                                      \o <<NL>>)
                  ELSE ~Shown(text, <<"**Space**:">>)
               /\ (Given("time_complexity") /\ Given("space_complexity")) =>
                      Shown(text, HdrComplexity \o TimeLine
                                  \o ArgField("time_complexity").s \o <<NL>>
                                  \o SpaceLine
                                  \o ArgField("space_complexity").s
                                  \o <<NL, NL>>)
               /\ \A i \in 1..4 :
                      Cardinality(Occurrences(text, CodingHeadings[i])) <= 1
               /\ \A i \in 1..4, j \in 1..4 :
                      (/\ i < j
                       /\ Shown(text, CodingHeadings[i])
                       /\ Shown(text, CodingHeadings[j])) =>
                          PosOf(text, CodingHeadings[i])
                              < PosOf(text, CodingHeadings[j])
               /\ ~Shown(text, HdrAnalysis) /\ ~Shown(text, HdrSolution)

\* steps from the reasoning, the code from the answer, the Space line
\* without the Time line, and the edge cases between them
C25_Witness ==
    /\ rphase = "rendered"
    /\ ArgType = S("coding")
    /\ ~Given("algorithm_steps") /\ Given("reasoning")
    /\ ~Given("code") /\ Given("answer")
    /\ ~Given("time_complexity") /\ Given("space_complexity")
    /\ Given("edge_cases")
    /\ rendered.exc = ""
    /\ Shown(rendered.v.s, HdrSteps \o <<"sum", NL, NL>> \o HdrEdges
                               \o <<"-", " ", "empty", NL, "-", " ", "one",
                                     NL, NL>> \o HdrCode)
    /\ Shown(rendered.v.s, HdrComplexity \o SpaceLine \o <<"constant">>)

\* the language of the call's details, None when the details or the
\* language are absent
GivenLanguage ==
    IF HasKey(r_info, "details")
    THEN DictGet(DictGet(r_info, W("details"), Null), W("language"), Null)
    ELSE Null

\* the tag of the fence the renderer writes
FenceTag == IF GivenLanguage = Null THEN W("python") ELSE GivenLanguage.s

\* the text starts with a fence, after leading whitespace
AlreadyFenced(code) == PyStartsWith(PyStrip(code), FenceMarker)

\* C26: in the Code Section a code text that is not fenced is wrapped in
\* exactly one fence, tagged with details.language, or with the default
\* tag when the details or the language are absent; a code text that
\* starts with a fence, after leading whitespace, is emitted as it is and
\* gets no second fence.
C26_CodeFencedOnce ==
    (/\ rphase # "args"
     /\ ArgType = S("coding")
     /\ (Given("code") \/ Given("answer"))) =>
        /\ rendered.exc = ""
        /\ LET text == rendered.v.s
               code == FirstGiven("code", "answer")
           IN  IF AlreadyFenced(code)
               THEN /\ Shown(text, HdrCode \o code \o <<NL, NL>>)
                    /\ Cardinality(Occurrences(text, FenceMarker))
                          = Cardinality(Occurrences(code, FenceMarker))
               ELSE /\ Shown(text, HdrCode \o <<BT, BT, BT, " ">> \o FenceTag
                                   \o <<NL>> \o code
                                   \o <<NL, BT, BT, BT, NL, NL>>)
                    /\ Cardinality(Occurrences(text, FenceMarker))
                          = Cardinality(Occurrences(code, FenceMarker)) + 2

\* fenced code after a blank and a newline, with a language in the
\* details: emitted unchanged, the language unused
C26_Witness ==
    /\ rphase = "rendered"
    /\ ArgType = S("coding")
    /\ ArgField("code") = IndentedCode
    /\ GivenLanguage = S("js")
    /\ rendered.exc = ""
    /\ Shown(rendered.v.s, HdrCode \o IndentedCode.s \o <<NL, NL>>)
    /\ ~Shown(rendered.v.s, <<"js">>)

-----------------------------------------------------------------------------
(* A further claim about parse_structured_output, under ParseSpec. *)

\* the complete content after the first JSON marker: up to the next closing
\* fence, or to the end of the text when there is none
CompletePayload(text) ==
    IF HasClosedFence(text) THEN FencedPayload(text)
    ELSE LET i == CHOOSE a \in 0..Len(text) : IsFirstMarker(text, a)
         IN  SubSeq(text, i + MarkerLen + 1, Len(text))

\* C27 as stated: a value that parse_structured_output returns and that is
\* not the sentinel is the JSON value of the complete content after the
\* JSON marker (up to the closing fence, or to the end of the text when the
\* fence is never closed) or of the entire text, never that of a slice
\* that drops characters of the payload.
C27_NoPayloadDropped ==
    (/\ pphase # "text"
     /\ parsed.exc = ""
     /\ parsed.v # RawSentinel(response_text)) =>
        \/ parsed = JsonLoads(response_text)
        \/ /\ HasMarker(response_text)
           /\ parsed = JsonLoads(PyStrip(CompletePayload(response_text)))

-----------------------------------------------------------------------------
(* Termination of send_message, under LiveSpec. *)

\* send_message has returned a result
Returned == pc = "Done" /\ result # Ret(Unset)

\* the fallback is one plain call, the last call made, and nothing of the
\* pipeline follows it
FallbackIsLast ==
    InPath("Degraded") =>
        /\ pc \in {"Degraded", "Done"}
        /\ Cardinality({k \in 1..Len(path) : path[k] = "Degraded"}) = 1
        /\ Cardinality({k \in 1..Len(calls) : IsPlainCall(calls[k])}) = 1
        /\ IsPlainCall(LastCall)

\* when the fallback call returns, send_message returns what the base
\* provider's send_message returned, an error result included, and makes no
\* further call
FallbackReturns ==
    pc = "Degraded" =>
        /\ pc' = "Done"
        /\ Len(calls') = Len(calls)
        /\ result' = GeminiSendMessage(OriginalArgs, calls'[Len(calls')].reply)

\* C28: every invocation terminates: when each backend call returns or
\* fails, send_message reaches Done and returns; the fallback is the base
\* provider's plain call, made once, and its failure leads to no further
\* call, stage or fallback.
C28_AlwaysTerminates ==
    /\ <>Returned
    /\ []FallbackIsLast
    /\ [][FallbackReturns]_vars
    /\ [](pc = "Done" => ~ENABLED Next)

\* both stages ran, the renderer raised, and the fallback call failed while
\* it was built: three calls and an error result
C28_Witness ==
    /\ pc = "Done"
    /\ path = <<"Idle", "Classifying", "Generating", "Formatting",
                "Degraded", "Done">>
    /\ Len(calls) = 3
    /\ LastCall.reply.pre = "OSError"
    /\ Truthy(req.audio_file)
    /\ HasKey(MetadataOf(result), "error")

-----------------------------------------------------------------------------
(* MainWindow: the global hotkeys, the screenshot, the send and the privacy *)
(* of the window.  The handlers run on the UI thread, called by nativeEvent *)
(* for a WM_HOTKEY message: from the event loop, or from the processEvents  *)
(* calls inside _handle_screenshot.  While _handle_send waits for           *)
(* llm_provider.send_message no message is handled.                         *)

\* the images captured in a run, the WM_HOTKEY messages that may wait, and
\* the calls of _handle_screenshot that may be in progress at once
MaxShots == 2
MaxQueued == 2
MaxFrames == 2

\* the hotkey ids of _setup_global_hotkeys
HkScreenshot == 101
HkVisibility == 102
HkPrivacy == 103
HkReset == 108
HkSend == 201

PermanentHotkeys == {HkScreenshot, HkVisibility, HkPrivacy, HkReset}

\* del self.current_image leaves no attribute
NoAttr == [t |-> "noattr"]

\* hasattr(self, 'current_image') and self.current_image
HasImage == current_image # NoAttr /\ current_image # PyNone

\* the calls of send_message a run may make
MaxSends == MaxShots + 1

\* after construction and window.show(): privacy on, the window shown and
\* excluded from capture, the permanent hotkeys registered
WindowInit ==
    /\ current_image = NoAttr
    /\ hotkey_ids = PermanentHotkeys
    /\ registered_dynamic_ids = {}
    /\ os_hotkeys = PermanentHotkeys
    /\ msg_queue = 0
    /\ ui_thread = "events"
    /\ frames = 0
    /\ captured = 0
    /\ llm_sent = <<>>
    /\ llm_provider \in BOOLEAN
    /\ privacy_enabled = TRUE
    /\ status_label = "on"
    /\ affinity = "exclude"
    /\ visible = TRUE
    /\ pc = "Off"
    /\ req = Unset
    /\ calls = <<>>
    /\ problem_info = Unset
    /\ solution_data = Unset
    /\ result = Ret(Unset)
    /\ path = <<>>
    /\ response_text = <<>>
    /\ parsed = Ret(Null)
    /\ pphase = "idle"
    /\ ProviderOff
    /\ CodecOff
    /\ RenderOff
    /\ ConcOff

\* _register_dynamic_hotkey(hk_id), RegisterHotKey returning ok
RegisterDynamicHotkey(hk_id, ok) ==
    IF hk_id \in registered_dynamic_ids \/ ~ok
    THEN UNCHANGED <<hotkey_ids, registered_dynamic_ids, os_hotkeys>>
    ELSE /\ os_hotkeys' = os_hotkeys \cup {hk_id}
         /\ hotkey_ids' = hotkey_ids \cup {hk_id}
         /\ registered_dynamic_ids' = registered_dynamic_ids \cup {hk_id}

\* the hotkey is left registered
UnregisterNothing(hk_id) ==
    UNCHANGED <<hotkey_ids, registered_dynamic_ids, os_hotkeys>>

\* _unregister_dynamic_hotkey(hk_id): UnregisterHotKey succeeds for an id
\* the system holds for the window
UnregisterDynamicHotkey(hk_id) ==
    IF hk_id \notin registered_dynamic_ids \/ hk_id \notin os_hotkeys
    THEN UNCHANGED <<hotkey_ids, registered_dynamic_ids, os_hotkeys>>
    ELSE /\ os_hotkeys' = os_hotkeys \ {hk_id}
         /\ hotkey_ids' = hotkey_ids \ {hk_id}
         /\ registered_dynamic_ids' = registered_dynamic_ids \ {hk_id}

\* set_privacy_mode(enabled): the affinity SetWindowDisplayAffinity sets
AffinityFor(enabled) == IF enabled THEN "exclude" ELSE "none"

\* the affinity after show(): showEvent applies the exclusion when the
\* window was hidden
AffinityShown == IF visible THEN affinity ELSE AffinityFor(TRUE)

\* the user presses Ctrl+Enter: the system posts WM_HOTKEY to the window
\* when it holds the hotkey for it
HotkeyPressed ==
    /\ HkSend \in os_hotkeys
    /\ msg_queue < MaxQueued
    /\ msg_queue' = msg_queue + 1
    /\ UNCHANGED <<current_image, hotkey_ids, registered_dynamic_ids,
                   os_hotkeys, ui_thread, frames, captured, llm_sent,
                   llm_provider, privacy_enabled, status_label, affinity,
                   visible>>
    /\ UNCHANGED <<pipeVars, parseVars, provVars, codecVars, renderVars,
                   concVars>>

\* _handle_send up to the provider's call: without an image it returns,
\* else the hotkey is unregistered and send_message is called with the image
HandleSend ==
    IF ~HasImage
    THEN UNCHANGED <<hotkey_ids, registered_dynamic_ids, os_hotkeys,
                     ui_thread, llm_sent>>
    ELSE /\ UnregisterDynamicHotkey(HkSend)
         /\ IF llm_provider
            THEN /\ llm_sent' = Append(llm_sent, current_image)
                 /\ ui_thread' = "send_message"
            ELSE UNCHANGED <<ui_thread, llm_sent>>

\* nativeEvent for a WM_HOTKEY message of Ctrl+Enter: the callback is
\* called if the id has one
NativeEvent ==
    /\ ui_thread = "events"
    /\ msg_queue > 0
    /\ msg_queue' = msg_queue - 1
    /\ IF HkSend \in hotkey_ids /\ Len(llm_sent) < MaxSends
       THEN HandleSend
       ELSE UNCHANGED <<hotkey_ids, registered_dynamic_ids, os_hotkeys,
                        ui_thread, llm_sent>>
    /\ UNCHANGED <<current_image, frames, captured, llm_provider,
                   privacy_enabled, status_label, affinity, visible>>
    /\ UNCHANGED <<pipeVars, parseVars, provVars, codecVars, renderVars,
                   concVars>>

\* send_message returns or raises: the text or the error is shown
SendReturns ==
    /\ ui_thread = "send_message"
    /\ ui_thread' = "events"
    /\ UNCHANGED <<current_image, hotkey_ids, registered_dynamic_ids,
                   os_hotkeys, msg_queue, frames, captured, llm_sent,
                   llm_provider, privacy_enabled, status_label, affinity,
                   visible>>
    /\ UNCHANGED <<pipeVars, parseVars, provVars, codecVars, renderVars,
                   concVars>>

\* _handle_screenshot up to processEvents: the exclusion is lifted and the
\* window hidden
HandleScreenshot ==
    /\ ui_thread = "events"
    /\ HkScreenshot \in hotkey_ids
    /\ frames < MaxFrames
    /\ frames' = frames + 1
    /\ affinity' = AffinityFor(FALSE)
    /\ visible' = FALSE
    /\ UNCHANGED <<current_image, hotkey_ids, registered_dynamic_ids,
                   os_hotkeys, msg_queue, ui_thread, captured, llm_sent,
                   llm_provider, privacy_enabled, status_label>>
    /\ UNCHANGED <<pipeVars, parseVars, provVars, codecVars, renderVars,
                   concVars>>

\* the outcomes of the capture: an image and its preview, None from
\* capture_screenshot, or an image and an exception while the preview is
\* built
CaptureOutcomes == {"image", "none", "error"}

\* _handle_screenshot from capture_screenshot on: current_image is set, the
\* window shown again, and for an image the send hotkey registered
ScreenshotCaptured(outcome, ok) ==
    /\ ui_thread = "events"
    /\ frames > 0
    /\ outcome # "none" => captured < MaxShots
    /\ frames' = frames - 1
    /\ captured' = IF outcome = "none" THEN captured ELSE captured + 1
    /\ current_image' = IF outcome = "none" THEN PyNone
                        ELSE Image(captured + 1)
    /\ affinity' = AffinityShown
    /\ visible' = TRUE
    /\ IF outcome = "image" THEN RegisterDynamicHotkey(HkSend, ok)
       ELSE UNCHANGED <<hotkey_ids, registered_dynamic_ids, os_hotkeys>>
    /\ UNCHANGED <<msg_queue, ui_thread, llm_sent, llm_provider,
                   privacy_enabled, status_label>>
    /\ UNCHANGED <<pipeVars, parseVars, provVars, codecVars, renderVars,
                   concVars>>

\* _handle_reset: the image is deleted and the send hotkey unregistered
HandleReset ==
    /\ ui_thread = "events"
    /\ HkReset \in hotkey_ids
    /\ current_image' = NoAttr
    /\ UnregisterDynamicHotkey(HkSend)
    /\ UNCHANGED <<msg_queue, ui_thread, frames, captured, llm_sent,
                   llm_provider, privacy_enabled, status_label, affinity,
                   visible>>
    /\ UNCHANGED <<pipeVars, parseVars, provVars, codecVars, renderVars,
                   concVars>>

\* _toggle_privacy: the flag is flipped, applied and shown
TogglePrivacy ==
    /\ ui_thread = "events"
    /\ HkPrivacy \in hotkey_ids
    /\ privacy_enabled' = ~privacy_enabled
    /\ affinity' = AffinityFor(privacy_enabled')
    /\ status_label' = IF privacy_enabled' THEN "on" ELSE "off"
    /\ UNCHANGED <<current_image, hotkey_ids, registered_dynamic_ids,
                   os_hotkeys, msg_queue, ui_thread, frames, captured,
                   llm_sent, llm_provider, visible>>
    /\ UNCHANGED <<pipeVars, parseVars, provVars, codecVars, renderVars,
                   concVars>>

\* _toggle_visibility: hide(), or show() with its showEvent
ToggleVisibility ==
    /\ ui_thread = "events"
    /\ HkVisibility \in hotkey_ids
    /\ visible' = ~visible
    /\ affinity' = AffinityShown
    /\ UNCHANGED <<current_image, hotkey_ids, registered_dynamic_ids,
                   os_hotkeys, msg_queue, ui_thread, frames, captured,
                   llm_sent, llm_provider, privacy_enabled, status_label>>
    /\ UNCHANGED <<pipeVars, parseVars, provVars, codecVars, renderVars,
                   concVars>>

WindowNext ==
    \/ HotkeyPressed
    \/ NativeEvent
    \/ SendReturns
    \/ HandleScreenshot
    \/ \E outcome \in CaptureOutcomes, ok \in BOOLEAN :
            ScreenshotCaptured(outcome, ok)
    \/ HandleReset
    \/ TogglePrivacy
    \/ ToggleVisibility

WindowSpec == WindowInit /\ [][WindowNext]_vars

-----------------------------------------------------------------------------
(* Claims about the hotkeys and the privacy of MainWindow, under           *)
(* WindowSpec.                                                             *)

\* the images captured so far
CapturedImages == {Image(n) : n \in 1..captured}

\* the image held has been passed to the provider
ImageSent == \E k \in 1..Len(llm_sent) : llm_sent[k] = current_image

\* no image was sent twice, the send hotkey has a callback only when an
\* image was captured and the image held is unsent, and while the provider
\* is called the hotkey is registered nowhere
SentOnce ==
    /\ \A k \in 1..Len(llm_sent) : llm_sent[k] \in CapturedImages
    /\ \A j \in 1..Len(llm_sent), k \in 1..Len(llm_sent) :
          llm_sent[j] = llm_sent[k] => j = k
    /\ HkSend \in hotkey_ids =>
          /\ captured > 0
          /\ HkSend \in os_hotkeys
          /\ ~ImageSent
    /\ HkSend \in os_hotkeys => HkSend \in hotkey_ids
    /\ ui_thread = "send_message" =>
          /\ HkSend \notin hotkey_ids
          /\ HkSend \notin os_hotkeys
          /\ llm_sent[Len(llm_sent)] = current_image

\* a step registers the send hotkey only with a newly captured image, and
\* calls the provider only with the image held, the hotkey unregistered
SendStep ==
    /\ (HkSend \notin hotkey_ids /\ HkSend \in hotkey_ids') =>
          /\ captured' = captured + 1
          /\ current_image' = Image(captured')
    /\ llm_sent' # llm_sent =>
          /\ HasImage
          /\ HkSend \in hotkey_ids
          /\ llm_sent' = Append(llm_sent, current_image)
          /\ HkSend \notin hotkey_ids'
          /\ HkSend \notin os_hotkeys'
    /\ ~HasImage => llm_sent' = llm_sent

\* C29: a captured screenshot is sent to the LLM at most once: the send
\* hotkey is registered only when a screenshot was captured, _handle_send
\* unregisters it before it calls the provider, after any sequence of
\* screenshots, sends and resets no second send happens until a new
\* screenshot is captured, and _handle_send without an image calls nothing.
C29_ScreenshotSentOnce == []SentOnce /\ [][SendStep]_vars

\* two screenshots, each sent once, and Ctrl+Enter released again by the
\* system
C29_Witness ==
    /\ llm_sent = <<Image(1), Image(2)>>
    /\ current_image = Image(2)
    /\ ui_thread = "events"
    /\ HkSend \notin os_hotkeys
    /\ msg_queue = 0

\* C30 as stated: after any sequence of privacy toggles, visibility toggles
\* and screenshots, when no handler is in progress, the window is excluded
\* from capture exactly when privacy_enabled is true, as the indicator
\* shows.
C30_AffinityMatchesFlag ==
    (ui_thread = "events" /\ frames = 0) =>
        /\ (affinity = "exclude") <=> privacy_enabled
        /\ (status_label = "on") <=> privacy_enabled

====
